---- MODULE Spec2Model ----
(***************************************************************************)
(* Tracking reconciliation engine of ecommerce-omar/tracking-api:          *)
(* error classification and retry (shared/utils/retry.ts), the carrier     *)
(* lookup (services/correios.ts), the event comparator                     *)
(* (shared/utils/eventComparator), the email publisher, the Correios token *)
(* service and the scheduled tracking job.                                 *)
(***************************************************************************)
EXTENDS Integers, Sequences, FiniteSets, TLC

(***************************************************************************)
(* Bounds of the model.                                                    *)
(***************************************************************************)
MaxAttemptsBound == 4

(***************************************************************************)
(* shared/utils/retry.ts : errors.                                         *)
(* A thrown value is a record: cls is "ClassifiedError", "Error" (any      *)
(* other Error instance) or "NonError" (a thrown value that is not an      *)
(* Error); type is the ErrorType of a ClassifiedError.                     *)
(***************************************************************************)
TEMPORARY == "temporary"
PERMANENT == "permanent"

Undefined == [cls |-> "undefined"]

PlainError(message) ==
    [cls |-> "Error", type |-> "none", message |-> message,
     originalError |-> Undefined]

NonError(message) ==
    [cls |-> "NonError", type |-> "none", message |-> message,
     originalError |-> Undefined]

ClassifiedError(message, type, originalError) ==
    [cls |-> "ClassifiedError", type |-> type, message |-> message,
     originalError |-> originalError]

HttpCodes == 100..599

classifyHttpError_403permanent(statusCode, message) ==
    IF statusCode \in {429, 500, 502, 503, 504}
    THEN ClassifiedError(message, TEMPORARY, Undefined)
    ELSE IF statusCode = 401
    THEN ClassifiedError(message, TEMPORARY, Undefined)
    ELSE IF statusCode \in {400, 403, 404, 422}
    THEN ClassifiedError(message, PERMANENT, Undefined)
    ELSE ClassifiedError(message, TEMPORARY, Undefined)

classifyHttpError(statusCode, message) ==
    IF statusCode = 429 \/ statusCode = 500 \/ statusCode = 502
       \/ statusCode = 503 \/ statusCode = 504
    THEN ClassifiedError(message, TEMPORARY, Undefined)
    ELSE IF statusCode = 401 \/ statusCode = 403
    THEN ClassifiedError(message, TEMPORARY, Undefined)
    ELSE IF statusCode = 400 \/ statusCode = 404 \/ statusCode = 422
    THEN ClassifiedError(message, PERMANENT, Undefined)
    ELSE ClassifiedError(message, TEMPORARY, Undefined)

classifyNetworkError(error) ==
    ClassifiedError("Erro de rede: " \o error.message, TEMPORARY, error)

(***************************************************************************)
(* retryWithBackoff: the tests of the catch block.                         *)
(***************************************************************************)
isPermanentError_never(error) == FALSE

isPermanentError_unclassified(error) ==
    error.cls # "ClassifiedError" \/ error.type = PERMANENT

isPermanentError(error) ==
    error.cls = "ClassifiedError" /\ error.type = PERMANENT

RECURSIVE Pow(_, _)
Pow(b, e) == IF e = 0 THEN 1 ELSE b * Pow(b, e - 1)

Min(a, b) == IF a < b THEN a ELSE b

backoffDelay_uncapped(opts, n) ==
    opts.initialDelay * Pow(opts.backoffMultiplier, n - 1)

backoffDelay(opts, n) ==
    Min(opts.initialDelay * Pow(opts.backoffMultiplier, n - 1), opts.maxDelay)

DefaultRetryOptions ==
    [maxAttempts |-> 3, initialDelay |-> 1000, maxDelay |-> 10000,
     backoffMultiplier |-> 2]

(***************************************************************************)
(* State.                                                                  *)
(*  retryWithBackoff: one run of the loop (retry.ts 59-107).               *)
(*    retryPc     "idle", "calling" (fn() awaited), "sleeping" (the        *)
(*                setTimeout awaited), "resolved", "rejected"              *)
(*    options     the destructured RetryOptions                            *)
(*    attempt     the loop variable                                        *)
(*    lastError   the local lastError                                      *)
(*    fnCalls     number of invocations of fn so far                       *)
(*    fnErrors    the errors fn threw, one per failed invocation           *)
(*    retryLog    the onRetry calls and the sleeps, in order               *)
(*    retryResult what the returned promise settled with                   *)
(***************************************************************************)
VARIABLES retryPc, options, attempt, lastError, fnCalls, fnErrors, retryLog,
          retryResult

retryVars ==
    <<retryPc, options, attempt, lastError, fnCalls, fnErrors, retryLog,
      retryResult>>

Ok(value) == [ok |-> TRUE, value |-> value, error |-> Undefined]
Fail(error) == [ok |-> FALSE, value |-> Undefined, error |-> error]

RetryIdle ==
    /\ retryPc = "idle"
    /\ options = DefaultRetryOptions
    /\ attempt = 0
    /\ lastError = Undefined
    /\ fnCalls = 0
    /\ fnErrors = <<>>
    /\ retryLog = <<>>
    /\ retryResult = Undefined

(* retryWithBackoff is called: the options are destructured, the loop is   *)
(* entered with attempt = 1 and fn() is invoked and awaited.               *)
RetryStart(opts) ==
    /\ retryPc = "idle"
    /\ options' = opts
    /\ attempt' = 1
    /\ fnCalls' = 1
    /\ retryPc' = "calling"
    /\ UNCHANGED <<lastError, fnErrors, retryLog, retryResult>>

(* fn() settles: return on success, else the catch block up to the sleep.  *)
RetryFnSettles(outcome) ==
    /\ retryPc = "calling"
    /\ IF outcome.ok
       THEN /\ retryPc' = "resolved"
            /\ retryResult' = outcome
            /\ UNCHANGED <<lastError, fnErrors, retryLog>>
       ELSE /\ lastError' = outcome.error
            /\ fnErrors' = Append(fnErrors, outcome.error)
            /\ IF isPermanentError(outcome.error)
               THEN /\ retryPc' = "rejected"
                    /\ retryResult' = Fail(outcome.error)
                    /\ UNCHANGED retryLog
               ELSE IF attempt = options.maxAttempts
               THEN /\ retryPc' = "rejected"
                    /\ retryResult' = Fail(outcome.error)
                    /\ UNCHANGED retryLog
               ELSE /\ retryLog' = retryLog
                          \o << [ev |-> "onRetry", n |-> attempt],
                                [ev |-> "sleep",
                                 n |-> backoffDelay(options, attempt)] >>
                    /\ retryPc' = "sleeping"
                    /\ UNCHANGED retryResult
    /\ UNCHANGED <<options, attempt, fnCalls>>

(* The timer fires: attempt++, the loop test, and fn() is invoked again.   *)
RetryWake ==
    /\ retryPc = "sleeping"
    /\ attempt' = attempt + 1
    /\ IF attempt + 1 <= options.maxAttempts
       THEN /\ fnCalls' = fnCalls + 1
            /\ retryPc' = "calling"
            /\ UNCHANGED retryResult
       ELSE /\ retryPc' = "rejected"
            /\ retryResult' = Fail(lastError)
            /\ UNCHANGED fnCalls
    /\ UNCHANGED <<options, lastError, fnErrors, retryLog>>

(* Inputs of the retry specification.                                      *)
RetryOptionSets ==
    [maxAttempts : 1..MaxAttemptsBound, initialDelay : {10, 1000},
     maxDelay : {25, 10000}, backoffMultiplier : {2, 3}]

FnErrorSet ==
    { ClassifiedError("Not found", PERMANENT, Undefined),
      ClassifiedError("Rate limit exceeded", TEMPORARY, Undefined),
      PlainError("Persistent error"),
      PlainError("Error 1"),
      NonError("thrown string") }

FnOutcomes == {Ok([v |-> "success"])} \cup {Fail(e) : e \in FnErrorSet}

(***************************************************************************)
(* shared/utils/eventComparator : hasNewEvents and createEventSignature.   *)
(* A TrackingEvent is a record of texts (accents are dropped in the        *)
(* model's texts); NoText stands for an absent optional field.  trim and   *)
(* toISOString are given on the texts of the model by what String.trim and *)
(* new Date(s).toISOString() return for them.                              *)
(***************************************************************************)
NoText == "<undefined>"

orEmpty(s) == IF s = NoText \/ s = "" THEN "" ELSE s

trim(s) ==
    CASE s = "Objeto postado " -> "Objeto postado"
      [] s = " Sao Paulo - SP " -> "Sao Paulo - SP"
      [] s = " " -> ""
      [] OTHER -> s

toISOString(date) ==
    CASE date = "2024-01-01T10:00:00Z" -> "2024-01-01T10:00:00.000Z"
      [] date = "2024-01-01T07:00:00-03:00" -> "2024-01-01T10:00:00.000Z"
      [] date = "2024-01-02T12:00:00Z" -> "2024-01-02T12:00:00.000Z"
      [] date = "2024-01-03T08:45:00Z" -> "2024-01-03T08:45:00.000Z"
      [] OTHER -> date

createEventSignature(event) ==
    LET normalizedDate == toISOString(event.date)
        normalizedLocation == trim(orEmpty(event.location))
        normalizedDescription == trim(event.description)
        normalizedDetail == trim(orEmpty(event.detail))
        normalizedUnitType == trim(orEmpty(event.unitType))
        normalizedOriginUnit == trim(orEmpty(event.originUnit))
        normalizedDestinationUnit == trim(orEmpty(event.destinationUnit))
    IN  normalizedDescription \o "|" \o normalizedDate \o "|"
           \o normalizedLocation \o "|" \o normalizedDetail \o "|"
           \o normalizedUnitType \o "|" \o normalizedOriginUnit \o "|"
           \o normalizedDestinationUnit

hasNewEvents_byPosition(oldEvents, newEvents) ==
    IF Len(oldEvents) # Len(newEvents) THEN TRUE
    ELSE \E j \in 1..Len(newEvents) :
            createEventSignature(newEvents[j])
               # createEventSignature(oldEvents[j])

hasNewEvents_bySetSize(oldEvents, newEvents) ==
    LET oldEventsSet ==
            {createEventSignature(oldEvents[i]) : i \in 1..Len(oldEvents)}
        newEventsSet ==
            {createEventSignature(newEvents[j]) : j \in 1..Len(newEvents)}
    IN  IF Cardinality(oldEventsSet) # Cardinality(newEventsSet) THEN TRUE
        ELSE \E j \in 1..Len(newEvents) :
                createEventSignature(newEvents[j]) \notin oldEventsSet

hasNewEvents(oldEvents, newEvents) ==
    IF Len(oldEvents) # Len(newEvents) THEN TRUE
    ELSE IF Len(oldEvents) = 0 /\ Len(newEvents) = 0 THEN FALSE
    ELSE LET oldEventsSet ==
                 {createEventSignature(oldEvents[i]) : i \in 1..Len(oldEvents)}
         IN  \E j \in 1..Len(newEvents) :
                 createEventSignature(newEvents[j]) \notin oldEventsSet

TrackingEvent(description, date, status, location, detail, unitType, originUnit, destinationUnit) ==
    [description |-> description, date |-> date, status |-> status,
     location |-> location, detail |-> detail, unitType |-> unitType,
     originUnit |-> originUnit, destinationUnit |-> destinationUnit]

EvPostado ==
    TrackingEvent("Objeto postado", "2024-01-01T10:00:00Z", "Objeto postado",
                  "Sao Paulo - SP", NoText, NoText, NoText, NoText)

(* The same event as the store may hand it back: other spelling of the     *)
(* same instant, surrounding blanks, an empty detail.                      *)
EvPostadoRespelled ==
    TrackingEvent("Objeto postado ", "2024-01-01T07:00:00-03:00",
                  "Objeto postado", " Sao Paulo - SP ", "", NoText, NoText,
                  NoText)

EvPostadoRio ==
    TrackingEvent("Objeto postado", "2024-01-01T10:00:00Z", "Objeto postado",
                  "Rio de Janeiro - RJ", NoText, NoText, NoText, NoText)

EvTransferencia ==
    TrackingEvent("Objeto em transferencia - por favor aguarde",
                  "2024-01-02T12:00:00Z",
                  "Objeto em transferencia - por favor aguarde",
                  "Curitiba/PR", NoText, "Unidade de Tratamento",
                  "Unidade de Tratamento, Curitiba - PR",
                  "Unidade de Distribuicao, Sao Paulo - SP")

EvSaiuParaEntrega ==
    TrackingEvent("Objeto saiu para entrega ao destinatario",
                  "2024-01-03T08:45:00Z",
                  "Objeto saiu para entrega ao destinatario", "SP", NoText,
                  "Unidade de Distribuicao", "Unidade de Distribuicao, SP",
                  NoText)

EventPool ==
    {EvPostado, EvPostadoRespelled, EvPostadoRio, EvTransferencia,
     EvSaiuParaEntrega}

MaxEvents == 2

RECURSIVE SeqsUpTo(_, _)
SeqsUpTo(S, n) ==
    IF n = 0 THEN {<<>>}
    ELSE LET shorter == SeqsUpTo(S, n - 1)
         IN  shorter \cup {Append(q, x) : q \in shorter, x \in S}

EventLists == SeqsUpTo(EventPool, MaxEvents)

(***************************************************************************)
(*  hasNewEvents applied to a pair of lists:                               *)
(*    comparePc                "idle" or "done"                            *)
(*    oldEvents, newEvents     the arguments                               *)
(*    returned            the boolean returned                        *)
(***************************************************************************)
VARIABLES comparePc, oldEvents, newEvents, returned

compareVars == <<comparePc, oldEvents, newEvents, returned>>

CompareIdle ==
    /\ comparePc = "idle"
    /\ oldEvents = <<>>
    /\ newEvents = <<>>
    /\ returned = FALSE

ApplyHasNewEvents ==
    \E old \in EventLists, new \in EventLists :
        /\ comparePc = "idle"
        /\ comparePc' = "done"
        /\ oldEvents' = old
        /\ newEvents' = new
        /\ returned' = hasNewEvents(old, new)

(***************************************************************************)
(* config/database.ts : the TrackingStatus and DeliveryChannel enums.      *)
(***************************************************************************)
TrackingStatus ==
    [ETIQUETA_EMITIDA |-> "Etiqueta emitida",
     ETIQUETA_CANCELADA |-> "Etiqueta cancelada pelo emissor",
     ETIQUETA_EXPIRADA |-> "Etiqueta expirada",
     CARTEIRO_SAIU_COLETA |-> "Carteiro saiu para coleta do objeto",
     OBJETO_COLETADO |-> "Objeto coletado",
     POSTADO |-> "Objeto postado",
     POSTADO_APOS_HORARIO_LIMITE |->
         "Objeto postado apos o horario limite da unidade",
     EM_TRANSITO |-> "Objeto em transferencia - por favor aguarde",
     CORRECAO_ROTA |-> "Objeto em correcao de rota",
     OBJETO_NAO_CHEGOU_UNIDADE |-> "Objeto ainda nao chegou a unidade",
     SAIU_PARA_ENTREGA |-> "Objeto saiu para entrega ao destinatario",
     SAIU_PARA_ENTREGA_REMETENTE |-> "Objeto saiu para entrega ao remetente",
     AGUARDANDO_RETIRADA |->
         "Objeto aguardando retirada no endereco indicado",
     ENCAMINHADO_RETIRADA |->
         "Objeto encaminhado para retirada no endereco indicado",
     DIRECIONADO_UNIDADE |->
         "Direcionado para entrega em unidade dos Correios a pedido do cliente",
     NAO_ENTREGUE |-> "Objeto nao entregue",
     NAO_ENTREGUE_ENDERECO_INCORRETO |->
         "Objeto nao entregue - endereco incorreto",
     NAO_ENTREGUE_ENDERECO_INSUFICIENTE |->
         "Objeto nao entregue - endereco insuficiente",
     NAO_ENTREGUE_CARTEIRO_NAO_ATENDIDO |->
         "Objeto nao entregue - carteiro nao atendido",
     NAO_ENTREGUE_PRAZO_ENCERRADO |->
         "Objeto nao entregue - prazo de retirada encerrado",
     TENTATIVA_ENTREGA_NAO_EFETUADA |-> "Tentativa de entrega nao efetuada",
     INCONSISTENCIAS_ENDERECAMENTO |->
         "Inconsistencias no enderecamento do objeto",
     DESCONSIDERAR_INFORMACAO |-> "Favor desconsiderar a informacao anterior",
     SUSPENSAO_ENTREGA |->
         "Solicitacao de suspensao de entrega ao destinatario",
     ERRO_CONSULTA |-> "Erro na consulta",
     ENTREGA_CANCELADA |-> "Saida para entrega cancelada",
     CANCELADO |-> "Cancelado",
     DEVOLVIDO |-> "Devolvido",
     OBJETO_SERA_DEVOLVIDO |->
         "Objeto sera devolvido por solicitacao do contratante/remetente",
     ENTREGUE |-> "Objeto entregue ao destinatario",
     ENTREGUE_REMETENTE |-> "Objeto entregue ao remetente",
     ENTREGUE_CAIXA_INTELIGENTE |->
         "Objeto entregue na Caixa de Correios Inteligente"]

TrackingStatusValues == {TrackingStatus[k] : k \in DOMAIN TrackingStatus}

DeliveryChannel ==
    [DELIVERY |-> "delivery", PICKUP_IN_POINT |-> "pickup-in-point"]

DeliveryChannelValues == {DeliveryChannel[k] : k \in DOMAIN DeliveryChannel}

(***************************************************************************)
(* infrastructure/services/EmailEventPublisher.ts                          *)
(***************************************************************************)
SILENT_STATUSES ==
    {TrackingStatus.DESCONSIDERAR_INFORMACAO,
     TrackingStatus.OBJETO_SERA_DEVOLVIDO,
     TrackingStatus.ETIQUETA_EXPIRADA,
     TrackingStatus.ENTREGUE_REMETENTE,
     TrackingStatus.SUSPENSAO_ENTREGA,
     TrackingStatus.OBJETO_NAO_CHEGOU_UNIDADE,
     TrackingStatus.CARTEIRO_SAIU_COLETA}

publishSends_ignoresChannel(event) == event.newStatus \notin SILENT_STATUSES

(* publish reaches the sendTrackingEmail call: neither early return taken. *)
publishSends(event) ==
    IF event.deliveryChannel = DeliveryChannel.PICKUP_IN_POINT THEN FALSE
    ELSE IF event.newStatus \in SILENT_STATUSES THEN FALSE
    ELSE TRUE

(***************************************************************************)
(* middlewares/emailSender : statusTemplateMap, and the template           *)
(* sendTrackingEmail asks getTemplate for: statusTemplateMap[status] ||    *)
(* "Postado".                                                              *)
(***************************************************************************)
statusTemplateMap ==
    [s \in {"Objeto entregue ao destinatario",
            "Objeto entregue na Caixa de Correios Inteligente",
            "Objeto entregue"} |-> "Objeto entregue"] @@
    [s \in {"Objeto saiu para entrega ao destinatario",
            "Objeto saiu para entrega ao remetente",
            "Saiu para entrega"} |-> "Saiu para entrega"] @@
    [s \in {"Objeto aguardando retirada no endereco indicado",
            "Aguardando retirada"} |-> "Aguardando retirada"] @@
    [s \in {"Objeto encaminhado para retirada no endereco indicado",
            "Objeto nao entregue",
            "Objeto nao entregue - endereco incorreto",
            "Objeto nao entregue - endereco insuficiente",
            "Objeto nao entregue - carteiro nao atendido",
            "Objeto nao entregue - prazo de retirada encerrado",
            "Tentativa de entrega nao efetuada",
            "Inconsistencias no enderecamento do objeto",
            "Nao entregue"} |-> "Nao entregue"] @@
    [s \in {"Saida para entrega cancelada",
            "Etiqueta cancelada pelo emissor",
            "Saida cancelada"} |-> "Saida cancelada"] @@
    [s \in {"Objeto em transferencia - por favor aguarde",
            "Objeto em correcao de rota",
            "Direcionado para entrega em unidade dos Correios a pedido do cliente",
            "Em transferencia"} |-> "Em transferencia"] @@
    [s \in {"Erro na consulta",
            "Objeto postado",
            "Objeto postado apos o horario limite da unidade",
            "Postado"} |-> "Postado"] @@
    [s \in {"Objeto coletado", "Coletado"} |-> "Coletado"] @@
    [s \in {"Etiqueta emitida"} |-> "Etiqueta emitida"]

templateNameOf(status) ==
    IF status \in DOMAIN statusTemplateMap THEN statusTemplateMap[status]
    ELSE "Postado"

(* What sendTrackingEmail may do: mail sent, template missing or inactive  *)
(* (returns without sending), or getTemplate / sendMail throws.            *)
SendOutcomes == {"sent", "templateInactive", "throws"}

(***************************************************************************)
(*  EmailEventPublisher.publish applied to one event:                      *)
(*    publishPc      "idle", "sending" (sendTrackingEmail awaited),        *)
(*                   "resolved", "rejected"                                *)
(*    publishEvent   the TrackingStatusChangedEvent (fields publish reads) *)
(*    sendCalls      calls of sendTrackingEmail                            *)
(*    mailsSent      mails handed to the transporter                       *)
(*    sendResult     the template sendTrackingEmail looked up in its last  *)
(*                   call, and how the call ended                          *)
(***************************************************************************)
VARIABLES publishPc, publishEvent, sendCalls, mailsSent, sendResult

publishVars == <<publishPc, publishEvent, sendCalls, mailsSent, sendResult>>

PublishIdle ==
    /\ publishPc = "idle"
    /\ publishEvent = [deliveryChannel |-> "", newStatus |-> ""]
    /\ sendCalls = 0
    /\ mailsSent = 0
    /\ sendResult = [templateName |-> "", outcome |-> "none"]

Publish(event) ==
    /\ publishPc = "idle"
    /\ publishEvent' = event
    /\ IF publishSends(event)
       THEN /\ sendCalls' = sendCalls + 1
            /\ publishPc' = "sending"
       ELSE /\ publishPc' = "resolved"
            /\ UNCHANGED sendCalls
    /\ UNCHANGED <<mailsSent, sendResult>>

(* publish without its try/catch: what sendTrackingEmail throws is thrown  *)
(* by publish.                                                             *)
PublishSendSettles_rethrows(outcome) ==
    /\ publishPc = "sending"
    /\ mailsSent' = IF outcome = "sent" THEN mailsSent + 1 ELSE mailsSent
    /\ sendResult' = [templateName |-> templateNameOf(publishEvent.newStatus),
                      outcome |-> outcome]
    /\ publishPc' = IF outcome = "throws" THEN "rejected" ELSE "resolved"
    /\ UNCHANGED <<publishEvent, sendCalls>>

(* sendTrackingEmail settles; a rejection is caught and logged.            *)
PublishSendSettles(outcome) ==
    /\ publishPc = "sending"
    /\ mailsSent' = IF outcome = "sent" THEN mailsSent + 1 ELSE mailsSent
    /\ sendResult' = [templateName |-> templateNameOf(publishEvent.newStatus),
                      outcome |-> outcome]
    /\ publishPc' = "resolved"
    /\ UNCHANGED <<publishEvent, sendCalls>>

(***************************************************************************)
(* services/correiosTokenService : CorreiosTokenService.                   *)
(* Time is counted in ticks of half an hour, so the token validity of one  *)
(* hour (60 * 60 * 1000 ms) is 2 ticks.                                    *)
(*    tokenCache    the field tokenCache: Null or [token, expiresAt]       *)
(*    tokenPromise  the field tokenPromise: 0 for null, else the number of *)
(*                  the acquisition whose promise it holds                 *)
(*    acquisitions  the calls of generateNewToken so far, each with the    *)
(*                  state of its own promise (inner), of the promise       *)
(*                  .finally() derived from it (outer), its outcome and    *)
(*                  the upstream requests it issued                        *)
(*    now           the clock                                              *)
(*    callerPc, awaited, got   per call of getValidToken (Callers numbers   *)
(*                  the calls): where it is, the acquisition whose promise *)
(*                  it was handed, and what it received                    *)
(*    missAtStart, pendingAtStart   per caller, recorded when its call     *)
(*                  starts: whether no unexpired token was cached, and the *)
(*                  acquisitions not yet completed at that moment          *)
(*    credentials   whether CORREIOS_API_KEY, CORREIOS_USERNAME and        *)
(*                  CORREIOS_POSTAL_CARD are all set in process.env        *)
(***************************************************************************)
TOKEN_EXPIRATION_MS == 2

MaxCallers == 3
MaxAcquisitions == 2
MaxTime == 3

Callers == 1..MaxCallers

Null == [isNull |-> TRUE]

TokenData(token, expiresAt) ==
    [isNull |-> FALSE, token |-> token, expiresAt |-> expiresAt]

VARIABLES tokenCache, tokenPromise, acquisitions, now, callerPc, awaited, got,
          missAtStart, pendingAtStart, credentials

tokenVars ==
    <<tokenCache, tokenPromise, acquisitions, now, callerPc, awaited, got,
      missAtStart, pendingAtStart, credentials>>

TokenIdle ==
    /\ tokenCache = Null
    /\ tokenPromise = 0
    /\ acquisitions = <<>>
    /\ now = 0
    /\ callerPc = [c \in Callers |-> "idle"]
    /\ awaited = [c \in Callers |-> 0]
    /\ got = [c \in Callers |-> Undefined]
    /\ missAtStart = [c \in Callers |-> FALSE]
    /\ pendingAtStart = [c \in Callers |-> {}]

cacheIsValid_atExpiry(cache, time) ==
    ~cache.isNull /\ cache.expiresAt >= time

(* tokenCache && tokenCache.expiresAt > new Date()                         *)
cacheIsValid(cache, time) ==
    ~cache.isNull /\ cache.expiresAt > time

generationInProgress_never(promise) == FALSE

(* if (this.tokenPromise)                                                  *)
generationInProgress(promise) == promise # 0

Uncompleted ==
    {id \in 1..Len(acquisitions) : acquisitions[id].outer = "pending"}

(* getValidToken up to its return; a new generation runs generateNewToken  *)
(* up to its first await, the fetch of the authentication endpoint, or up  *)
(* to its throw when the credentials are not configured.                   *)
GetValidToken(c) ==
    /\ callerPc[c] = "idle"
    /\ missAtStart' = [missAtStart EXCEPT ![c] = ~cacheIsValid(tokenCache, now)]
    /\ pendingAtStart' = [pendingAtStart EXCEPT ![c] = Uncompleted]
    /\ IF cacheIsValid(tokenCache, now)
       THEN /\ got' = [got EXCEPT ![c] = Ok([token |-> tokenCache.token])]
            /\ callerPc' = [callerPc EXCEPT ![c] = "returned"]
            /\ awaited' = [awaited EXCEPT ![c] = 0]
            /\ UNCHANGED <<tokenPromise, acquisitions>>
       ELSE IF generationInProgress(tokenPromise)
       THEN /\ awaited' = [awaited EXCEPT ![c] = tokenPromise]
            /\ callerPc' = [callerPc EXCEPT ![c] = "awaiting"]
            /\ UNCHANGED <<tokenPromise, acquisitions, got>>
       ELSE /\ Len(acquisitions) < MaxAcquisitions
            /\ acquisitions' = Append(acquisitions,
                  IF credentials
                  THEN [inner |-> "pending", outer |-> "pending",
                        outcome |-> Undefined, requests |-> 1, startedBy |-> c]
                  ELSE [inner |-> "rejected", outer |-> "pending",
                        outcome |-> Fail(PlainError(
                            "Credenciais dos Correios nao configuradas")),
                        requests |-> 0, startedBy |-> c])
            /\ tokenPromise' = Len(acquisitions) + 1
            /\ awaited' = [awaited EXCEPT ![c] = Len(acquisitions) + 1]
            /\ callerPc' = [callerPc EXCEPT ![c] = "awaiting"]
            /\ UNCHANGED got
    /\ UNCHANGED <<tokenCache, now, credentials>>

(* What the authentication endpoint may answer.                            *)
AuthAnswers == {"token", "notOk", "noToken"}

(* The authentication request of acquisition id is answered:               *)
(* generateNewToken from the fetch to its return or throw.                 *)
AuthResponds(id, answer) ==
    /\ id \in 1..Len(acquisitions)
    /\ acquisitions[id].inner = "pending"
    /\ IF answer = "token"
       THEN /\ tokenCache' = TokenData(id, now + TOKEN_EXPIRATION_MS)
            /\ acquisitions' = [acquisitions EXCEPT
                  ![id].inner = "fulfilled",
                  ![id].outcome = Ok([token |-> id])]
       ELSE /\ acquisitions' = [acquisitions EXCEPT
                  ![id].inner = "rejected",
                  ![id].outcome = Fail(PlainError(
                      IF answer = "notOk" THEN "Erro ao gerar token"
                      ELSE "Token nao retornado pela API dos Correios"))]
            /\ UNCHANGED tokenCache
    /\ UNCHANGED <<tokenPromise, now, callerPc, awaited, got, missAtStart,
                   pendingAtStart, credentials>>

TokenPromiseFinally_keepsMarker(id) ==
    /\ id \in 1..Len(acquisitions)
    /\ acquisitions[id].inner # "pending"
    /\ acquisitions[id].outer = "pending"
    /\ acquisitions' = [acquisitions EXCEPT ![id].outer = acquisitions[id].inner]
    /\ UNCHANGED <<tokenCache, tokenPromise, now, callerPc, awaited, got,
                   missAtStart, pendingAtStart, credentials>>

(* The .finally() callback of acquisition id runs and its promise settles. *)
TokenPromiseFinally(id) ==
    /\ id \in 1..Len(acquisitions)
    /\ acquisitions[id].inner # "pending"
    /\ acquisitions[id].outer = "pending"
    /\ tokenPromise' = 0
    /\ acquisitions' = [acquisitions EXCEPT ![id].outer = acquisitions[id].inner]
    /\ UNCHANGED <<tokenCache, now, callerPc, awaited, got, missAtStart,
                   pendingAtStart, credentials>>

(* A caller awaiting the promise it was handed is resumed with its result. *)
CallerResumes(c) ==
    /\ callerPc[c] = "awaiting"
    /\ acquisitions[awaited[c]].outer # "pending"
    /\ got' = [got EXCEPT ![c] = acquisitions[awaited[c]].outcome]
    /\ callerPc' = [callerPc EXCEPT ![c] = "returned"]
    /\ UNCHANGED <<tokenCache, tokenPromise, acquisitions, now, awaited,
                   missAtStart, pendingAtStart, credentials>>

(* clearCache(): both fields are set to null, whatever is under way.  The  *)
(* call is synchronous and may come at any point between two steps.        *)
ClearCache ==
    /\ ~tokenCache.isNull \/ tokenPromise # 0
    /\ tokenCache' = Null
    /\ tokenPromise' = 0
    /\ UNCHANGED <<acquisitions, now, callerPc, awaited, got, missAtStart,
                   pendingAtStart, credentials>>

(* Time passes; promise reactions already due run before any timer does.   *)
Tick ==
    /\ now < MaxTime
    /\ \A id \in 1..Len(acquisitions) :
          acquisitions[id].inner = acquisitions[id].outer
    /\ \A c \in Callers :
          callerPc[c] = "awaiting" => acquisitions[awaited[c]].outer = "pending"
    /\ now' = now + 1
    /\ UNCHANGED <<tokenCache, tokenPromise, acquisitions, callerPc, awaited,
                   got, missAtStart, pendingAtStart, credentials>>

(***************************************************************************)
(* services/correios.ts : fetchTrackingData and trackCorreios.             *)
(* The body of the carrier's answer: objetos is a sequence (absent and     *)
(* empty take the same branch); an objeto has mensagem, eventos and        *)
(* dtPrevista; an evento has descricao, dtHrCriado, detalhe, unidade and   *)
(* unidadeDestino, each unit with a tipo and an endereco (cidade, uf).     *)
(* The unitAddress of an event does not enter any comparison and is left   *)
(* out.                                                                    *)
(***************************************************************************)
truthy(text) == text # NoText /\ text # ""

NoEndereco == [present |-> FALSE, cidade |-> NoText, uf |-> NoText]
Endereco(cidade, uf) == [present |-> TRUE, cidade |-> cidade, uf |-> uf]
NoUnidade == [present |-> FALSE, tipo |-> NoText, endereco |-> NoEndereco]
Unidade(tipo, endereco) ==
    [present |-> TRUE, tipo |-> tipo, endereco |-> endereco]

(* partes.filter(Boolean).join(', ') for partes = [tipo, place?]           *)
unitDescriptor(unidade) ==
    LET e == unidade.endereco
        place == IF ~e.present THEN NoText
                 ELSE IF truthy(e.cidade) /\ truthy(e.uf)
                      THEN e.cidade \o " - " \o e.uf
                 ELSE IF truthy(e.cidade) THEN e.cidade
                 ELSE IF truthy(e.uf) THEN e.uf
                 ELSE NoText
    IN  IF ~unidade.present THEN NoText
        ELSE IF truthy(unidade.tipo) /\ truthy(place)
             THEN unidade.tipo \o ", " \o place
        ELSE IF truthy(unidade.tipo) THEN unidade.tipo
        ELSE IF truthy(place) THEN place
        ELSE ""

eventLocation(unidade) ==
    LET e == unidade.endereco
    IN  IF unidade.present /\ e.present
        THEN IF truthy(e.cidade) /\ truthy(e.uf) THEN e.cidade \o "/" \o e.uf
             ELSE IF truthy(e.uf) THEN e.uf
             ELSE IF truthy(e.cidade) THEN e.cidade
             ELSE "Local nao informado"
        ELSE "Local nao informado"

(* The callback of eventos.map                                             *)
mapEvento(evento) ==
    TrackingEvent(evento.descricao, evento.dtHrCriado, evento.descricao,
                  eventLocation(evento.unidade), evento.detalhe,
                  IF evento.unidade.present THEN evento.unidade.tipo ELSE NoText,
                  unitDescriptor(evento.unidade),
                  unitDescriptor(evento.unidadeDestino))

(* The if / else-if chain over description.includes(pattern), as its       *)
(* ordered list of <<pattern, status>>.                                    *)
ClassificationRules ==
    << <<"Objeto entregue ao destinatario",
         "Objeto entregue ao destinatario">>,
       <<"Objeto entregue ao remetente", "Objeto entregue ao remetente">>,
       <<"Objeto entregue na Caixa de Correios Inteligente",
         "Objeto entregue na Caixa de Correios Inteligente">>,
       <<"Objeto nao entregue - prazo de retirada encerrado",
         "Objeto nao entregue - prazo de retirada encerrado">>,
       <<"Objeto nao entregue - carteiro nao atendido",
         "Objeto nao entregue - carteiro nao atendido">>,
       <<"Objeto nao entregue - endereco insuficiente",
         "Objeto nao entregue - endereco insuficiente">>,
       <<"Objeto nao entregue - endereco incorreto",
         "Objeto nao entregue - endereco incorreto">>,
       <<"Tentativa de entrega nao efetuada",
         "Tentativa de entrega nao efetuada">>,
       <<"Objeto nao entregue", "Objeto nao entregue">>,
       <<"Objeto saiu para entrega ao destinatario",
         "Objeto saiu para entrega ao destinatario">>,
       <<"Objeto saiu para entrega ao remetente",
         "Objeto saiu para entrega ao remetente">>,
       <<"Saida para entrega cancelada", "Saida para entrega cancelada">>,
       <<"Objeto encaminhado para retirada no endereco indicado",
         "Objeto encaminhado para retirada no endereco indicado">>,
       <<"Objeto aguardando retirada no endereco indicado",
         "Objeto aguardando retirada no endereco indicado">>,
       <<"Direcionado para entrega em unidade dos Correios a pedido do cliente",
         "Direcionado para entrega em unidade dos Correios a pedido do cliente">>,
       <<"Objeto em correcao de rota", "Objeto em correcao de rota">>,
       <<"Objeto ainda nao chegou a unidade",
         "Objeto ainda nao chegou a unidade">>,
       <<"Objeto em transferencia",
         "Objeto em transferencia - por favor aguarde">>,
       <<"Objeto postado apos o horario limite da unidade",
         "Objeto postado apos o horario limite da unidade">>,
       <<"Objeto postado", "Objeto postado">>,
       <<"Objeto coletado", "Objeto coletado">>,
       <<"Carteiro saiu para coleta do objeto",
         "Carteiro saiu para coleta do objeto">>,
       <<"Etiqueta cancelada pelo emissor",
         "Etiqueta cancelada pelo emissor">>,
       <<"Etiqueta expirada", "Etiqueta expirada">>,
       <<"Etiqueta emitida", "Etiqueta emitida">>,
       <<"Inconsistencias no enderecamento do objeto",
         "Inconsistencias no enderecamento do objeto">>,
       <<"Favor desconsiderar a informacao anterior",
         "Favor desconsiderar a informacao anterior">>,
       <<"Solicitacao de suspensao de entrega ao destinatario",
         "Solicitacao de suspensao de entrega ao destinatario">>,
       <<"Objeto sera devolvido por solicitacao do contratante/remetente",
         "Objeto sera devolvido por solicitacao do contratante/remetente">>,
       <<"Cancelado", "Cancelado">>,
       <<"Devolvido", "Devolvido">> >>


(* String.prototype.includes: part occurs in text as a substring.           *)
isSubstring(part, text) ==
    \E i \in 1..(Len(text) - Len(part) + 1) :
       SubSeq(text, i, i + Len(part) - 1) = part

Patterns == {ClassificationRules[k][1] : k \in DOMAIN ClassificationRules}

Descriptions ==
    {"Objeto entregue ao destinatario",
     "Objeto entregue ao remetente",
     "Objeto entregue na Caixa de Correios Inteligente",
     "Objeto nao entregue - prazo de retirada encerrado",
     "Objeto nao entregue - carteiro nao atendido",
     "Objeto nao entregue - endereco insuficiente",
     "Objeto nao entregue - endereco incorreto",
     "Tentativa de entrega nao efetuada",
     "Objeto nao entregue",
     "Objeto saiu para entrega ao destinatario",
     "Objeto saiu para entrega ao remetente",
     "Saida para entrega cancelada",
     "Objeto encaminhado para retirada no endereco indicado",
     "Objeto aguardando retirada no endereco indicado",
     "Direcionado para entrega em unidade dos Correios a pedido do cliente",
     "Objeto em correcao de rota",
     "Objeto ainda nao chegou a unidade",
     "Objeto em transferencia",
     "Objeto em transferencia - por favor aguarde",
     "Objeto postado apos o horario limite da unidade",
     "Objeto postado",
     "Objeto coletado",
     "Carteiro saiu para coleta do objeto",
     "Etiqueta cancelada pelo emissor",
     "Etiqueta expirada",
     "Etiqueta emitida",
     "Inconsistencias no enderecamento do objeto",
     "Favor desconsiderar a informacao anterior",
     "Solicitacao de suspensao de entrega ao destinatario",
     "Objeto sera devolvido por solicitacao do contratante/remetente",
     "Cancelado",
     "Devolvido",
     "Objeto recebido pelos Correios do Brasil",
     "Objeto entregue ao destinatario - recebido por vizinho",
     "Objeto nao entregue - prazo de retirada encerrado - sera devolvido",
     "Objeto em correcao de rota - Objeto em transferencia para a unidade",
     "Aviso: Objeto postado apos o horario limite da unidade - sujeito a encaminhamento no proximo dia util",
     "Erro na consulta"}

(* description.includes(pattern) over the patterns of the chain: the       *)
(* patterns that occur in a description, looked up once per description.   *)
PatternsByDescription ==
    [d \in Descriptions |-> {p \in Patterns : isSubstring(p, d)}]

patternsIn(description) ==
    IF description \in Descriptions THEN PatternsByDescription[description]
    ELSE {p \in Patterns : isSubstring(p, description)}

includes(description, pattern) == pattern \in patternsIn(description)

DefaultStatus_short == "Objeto em transferencia"

DefaultStatus == "Objeto em transferencia - por favor aguarde"

RECURSIVE firstMatch(_, _)
firstMatch(description, k) ==
    IF k > Len(ClassificationRules) THEN DefaultStatus
    ELSE IF includes(description, ClassificationRules[k][1])
         THEN ClassificationRules[k][2]
    ELSE firstMatch(description, k + 1)

classifyStatus_lastMatch(description) ==
    LET matching == {k \in DOMAIN ClassificationRules :
                        includes(description, ClassificationRules[k][1])}
    IN  IF matching = {} THEN DefaultStatus
        ELSE ClassificationRules[CHOOSE k \in matching :
                                    \A l \in matching : l <= k][2]

classifyStatus_unmatchedIsError(description) ==
    IF patternsIn(description) = {} THEN "Erro na consulta"
    ELSE firstMatch(description, 1)

classifyStatus(description) == firstMatch(description, 1)

(* new Date().toISOString() at clock value time                            *)
nowISOString(time) == "2024-01-05T0" \o ToString(time) \o ":00:00.000Z"

CorreiosResponse(status, events, dtPrevista) ==
    [status |-> status, events |-> events, dtPrevista |-> dtPrevista]

(* The try block with the test of eventos.length ahead of the test of     *)
(* objeto.mensagem.                                                        *)
normalizeResponse_eventosFirst(trackingData, time) ==
    IF Len(trackingData.objetos) = 0
    THEN Fail(PlainError("Objeto nao encontrado"))
    ELSE LET objeto == trackingData.objetos[1]
             eventos == objeto.eventos
             events == [i \in 1..Len(eventos) |-> mapEvento(eventos[i])]
         IN  IF Len(eventos) = 0
             THEN Ok(CorreiosResponse("Etiqueta emitida", <<>>,
                                      objeto.dtPrevista))
             ELSE IF truthy(objeto.mensagem)
             THEN Ok(CorreiosResponse("Objeto nao encontrado",
                     << TrackingEvent(objeto.mensagem, nowISOString(time),
                                      "Nao encontrado", "Correios", NoText,
                                      NoText, NoText, NoText) >>,
                     NoText))
             ELSE Ok(CorreiosResponse(classifyStatus(events[1].description),
                                      events, objeto.dtPrevista))

(* The try block of trackCorreios after retryWithBackoff resolved.         *)
normalizeResponse(trackingData, time) ==
    IF Len(trackingData.objetos) = 0
    THEN Fail(PlainError("Objeto nao encontrado"))
    ELSE LET objeto == trackingData.objetos[1]
             eventos == objeto.eventos
             events == [i \in 1..Len(eventos) |-> mapEvento(eventos[i])]
         IN  IF truthy(objeto.mensagem)
             THEN Ok(CorreiosResponse("Objeto nao encontrado",
                     << TrackingEvent(objeto.mensagem, nowISOString(time),
                                      "Nao encontrado", "Correios", NoText,
                                      NoText, NoText, NoText) >>,
                     NoText))
             ELSE IF Len(eventos) = 0
             THEN Ok(CorreiosResponse("Etiqueta emitida", <<>>,
                                      objeto.dtPrevista))
             ELSE Ok(CorreiosResponse(classifyStatus(events[1].description),
                                      events, objeto.dtPrevista))

isTemporaryError_anyClassified(error) == error.cls = "ClassifiedError"

isTemporaryError(error) ==
    error.cls = "ClassifiedError" /\ error.type = TEMPORARY

errorMessageOf(error) ==
    IF error.cls \in {"Error", "ClassifiedError"} THEN error.message
    ELSE "Erro desconhecido"

(* A catch block that rethrows whatever it caught.                         *)
catchLookupError_rethrows(error, time) == Fail(error)

(* The catch block of trackCorreios.                                       *)
catchLookupError(error, time) ==
    IF isTemporaryError(error) THEN Fail(error)
    ELSE Ok(CorreiosResponse("Erro na consulta",
            << TrackingEvent("Erro ao consultar os Correios: "
                                \o errorMessageOf(error)
                                \o ". Verifique o codigo de rastreamento.",
                             nowISOString(time), "Erro", "Sistema", NoText,
                             NoText, NoText, NoText) >>,
            NoText))

(* What trackCorreios settles with, given what retryWithBackoff settled    *)
(* with: Ok(CorreiosResponse) when it resolves, Fail(error) when rejects.  *)
trackCorreiosSettle(retried, time) ==
    LET tried == IF retried.ok THEN normalizeResponse(retried.value, time)
                 ELSE retried
    IN  IF tried.ok THEN tried ELSE catchLookupError(tried.error, time)

TrackRetryOptions ==
    [maxAttempts |-> 3, initialDelay |-> 1000, maxDelay |-> 10000,
     backoffMultiplier |-> 2]

(* fetchTrackingData for one attempt, given what getValidToken and the     *)
(* carrier do: env.token is Ok or Fail; env.kind is "response" (with       *)
(* status and body), "networkError" (fetch throws), "invalidJson" (json()  *)
(* throws) or "nonError" (a value that is not an Error is thrown).         *)
fetchTrackingData(env) ==
    IF ~env.token.ok
    THEN (IF env.token.error.cls = "ClassifiedError" THEN Fail(env.token.error)
          ELSE IF env.token.error.cls = "Error"
               THEN Fail(classifyNetworkError(env.token.error))
          ELSE Fail(env.token.error))
    ELSE IF env.kind = "networkError"
         THEN Fail(classifyNetworkError(PlainError("fetch failed")))
    ELSE IF env.kind = "invalidJson"
         THEN Fail(classifyNetworkError(PlainError("Unexpected token")))
    ELSE IF env.kind = "nonError"
         THEN Fail(NonError("thrown value"))
    ELSE IF env.status \notin 200..299
         THEN Fail(classifyHttpError(env.status,
                                     "Erro ao consultar rastreamento: "
                                        \o ToString(env.status)))
    ELSE Ok(env.body)

(* Answers of the carrier used as inputs.                                  *)
Evento(descricao, dtHrCriado, detalhe, unidade, unidadeDestino) ==
    [descricao |-> descricao, dtHrCriado |-> dtHrCriado, detalhe |-> detalhe,
     unidade |-> unidade, unidadeDestino |-> unidadeDestino]

Objeto(mensagem, eventos, dtPrevista) ==
    [mensagem |-> mensagem, eventos |-> eventos, dtPrevista |-> dtPrevista]

CePostado ==
    Evento("Objeto postado", "2024-01-01T10:00:00Z", NoText,
           Unidade("Agencia dos Correios", Endereco("Sao Paulo", "SP")),
           NoUnidade)

CeTransferencia ==
    Evento("Objeto em transferencia - por favor aguarde",
           "2024-01-02T12:00:00Z", NoText,
           Unidade("Unidade de Tratamento", Endereco("Curitiba", "PR")),
           Unidade("Unidade de Distribuicao", Endereco("Sao Paulo", "SP")))

CeSaiuParaEntrega ==
    Evento("Objeto saiu para entrega ao destinatario", "2024-01-03T08:45:00Z",
           NoText, Unidade("Unidade de Distribuicao", Endereco(NoText, "SP")),
           NoUnidade)

CeEntregue ==
    Evento("Objeto entregue ao destinatario - recebido por vizinho",
           "2024-01-03T15:10:00Z", "Recebido por vizinho",
           Unidade("Unidade de Distribuicao", NoEndereco), NoUnidade)

CeRecebido ==
    Evento("Objeto recebido pelos Correios do Brasil", "2024-01-01T09:00:00Z",
           NoText, NoUnidade, NoUnidade)

CarrierBodies ==
    { [objetos |-> <<>>],
      [objetos |-> << Objeto("SRO-020: Objeto nao encontrado na base de dados dos Correios.",
                             <<>>, NoText) >>],
      [objetos |-> << Objeto("SRO-019: Objeto invalido", <<CePostado>>,
                             "2024-01-10") >>],
      [objetos |-> << Objeto(NoText, <<>>, "2024-01-10") >>],
      [objetos |-> << Objeto(NoText, <<CePostado>>, "2024-01-10") >>],
      [objetos |-> << Objeto(NoText, <<CeTransferencia, CePostado>>,
                             "2024-01-10") >>],
      [objetos |-> << Objeto(NoText, <<CeSaiuParaEntrega, CeTransferencia>>,
                             NoText) >>],
      [objetos |-> << Objeto(NoText, <<CeEntregue, CeSaiuParaEntrega>>,
                             NoText) >>],
      [objetos |-> << Objeto(NoText, <<CeRecebido>>, NoText) >>] }

NoBody == [objetos |-> <<>>]

FetchEnv(token, kind, status, body) ==
    [token |-> token, kind |-> kind, status |-> status, body |-> body]

FailureStatuses == {400, 401, 404, 422, 429, 500, 503}

FetchEnvironments ==
    { FetchEnv(Ok("token"), "response", 200, body) : body \in CarrierBodies }
    \cup { FetchEnv(Ok("token"), "response", status, NoBody) :
              status \in FailureStatuses }
    \cup { FetchEnv(Ok("token"), kind, 0, NoBody) :
              kind \in {"networkError", "invalidJson", "nonError"} }
    \cup { FetchEnv(Fail(PlainError("Falha na autenticacao: 401 Unauthorized")),
                    "response", 0, NoBody) }

(***************************************************************************)
(*  One call of trackCorreios:                                             *)
(*    trackPc      "idle", "retrying" (inside retryWithBackoff),           *)
(*                 "resolved" or "rejected"                                *)
(*    trackResult  what the returned promise settled with                  *)
(*  The retry machine above runs with fn = fetchTrackingData.              *)
(***************************************************************************)
VARIABLES trackPc, trackResult

trackVars == <<trackPc, trackResult>>

TrackIdle ==
    /\ trackPc = "idle"
    /\ trackResult = Undefined

TrackCorreios ==
    /\ trackPc = "idle"
    /\ RetryStart(TrackRetryOptions)
    /\ trackPc' = "retrying"
    /\ UNCHANGED trackResult

TrackFetchSettles(env) ==
    /\ trackPc = "retrying"
    /\ RetryFnSettles(fetchTrackingData(env))
    /\ UNCHANGED trackVars

TrackBackoffEnds ==
    /\ trackPc = "retrying"
    /\ RetryWake
    /\ UNCHANGED trackVars

TrackCorreiosSettles ==
    /\ trackPc = "retrying"
    /\ retryPc \in {"resolved", "rejected"}
    /\ LET settled == trackCorreiosSettle(retryResult, now)
       IN  /\ trackResult' = settled
           /\ trackPc' = IF settled.ok THEN "resolved" ELSE "rejected"
    /\ UNCHANGED retryVars

(***************************************************************************)
(* The reconciliation job: processTrackings, with the update use case,     *)
(* the repository and the publisher it drives.                             *)
(*                                                                         *)
(* A row of the tracking table.  updatedAt is a clock value.  Events are   *)
(* kept as the lookup produced them: the store's JSON drops the absent     *)
(* fields, which createEventSignature reads as empty either way.           *)
(***************************************************************************)
MAX_CONSECUTIVE_FAILURES == 3
FAILURE_WAIT_TIME == 60000

JobTypes == {"NORMAL", "PICO-EXTRA"}

(* The invocations of processTrackings that may be under way at once: one  *)
(* per schedule, and the next firing of the main schedule while the two    *)
(* earlier ones still run.                                                 *)
Passes == JobTypes \cup {"NORMAL (next firing)"}

MaxRecords == 4

Codes == 0..MaxRecords

Row(trackingCode, currentStatus, events, deliveryChannel, dtExpected, updatedAt) ==
    [isNull |-> FALSE, trackingCode |-> trackingCode,
     currentStatus |-> currentStatus, events |-> events,
     deliveryChannel |-> deliveryChannel, dtExpected |-> dtExpected,
     updatedAt |-> updatedAt]

pendingStatuses ==
    {"Etiqueta emitida",
     "Carteiro saiu para coleta do objeto",
     "Objeto postado",
     "Objeto postado apos o horario limite da unidade",
     "Objeto coletado",
     "Objeto em transferencia - por favor aguarde",
     "Objeto em correcao de rota",
     "Objeto ainda nao chegou a unidade",
     "Objeto saiu para entrega ao destinatario",
     "Objeto saiu para entrega ao remetente",
     "Objeto aguardando retirada no endereco indicado",
     "Objeto encaminhado para retirada no endereco indicado",
     "Direcionado para entrega em unidade dos Correios a pedido do cliente",
     "Objeto nao entregue",
     "Objeto nao entregue - endereco incorreto",
     "Objeto nao entregue - endereco insuficiente",
     "Objeto nao entregue - carteiro nao atendido",
     "Objeto nao entregue - prazo de retirada encerrado",
     "Tentativa de entrega nao efetuada",
     "Saida para entrega cancelada",
     "Inconsistencias no enderecamento do objeto",
     "Favor desconsiderar a informacao anterior",
     "Solicitacao de suspensao de entrega ao destinatario",
     "Objeto sera devolvido por solicitacao do contratante/remetente",
     "Erro na consulta"}

(* .order('updated_at', { ascending: false }) over the selected rows; rows *)
(* of equal updated_at are listed by tracking code.                        *)
RECURSIVE orderByUpdatedAtDesc(_, _)
orderByUpdatedAtDesc(table, codes) ==
    IF codes = {} THEN <<>>
    ELSE LET first ==
                 CHOOSE c \in codes :
                    \A d \in codes :
                       \/ table[c].updatedAt > table[d].updatedAt
                       \/ /\ table[c].updatedAt = table[d].updatedAt
                          /\ c <= d
         IN  <<table[first]>> \o orderByUpdatedAtDesc(table, codes \ {first})

(* What findPendingTrackings resolves with: [] when the query errs.        *)
findPendingTrackings(table, dbOk) ==
    IF ~dbOk THEN <<>>
    ELSE orderByUpdatedAtDesc(table,
            {c \in DOMAIN table : /\ ~table[c].isNull
                                  /\ table[c].currentStatus \in pendingStatuses})

(* What findByTrackingCode resolves with: null on an error or no row.      *)
findByTrackingCode(table, trackingCode, dbOk) ==
    IF dbOk /\ ~table[trackingCode].isNull THEN table[trackingCode] ELSE Null

(* The row updateStatus writes: dt_expected only when one is given.        *)
updatedRow_keepsEvents(row, status, events, dtExpected, time) ==
    [row EXCEPT !.currentStatus = status,
                !.updatedAt = time,
                !.dtExpected = IF truthy(dtExpected) THEN dtExpected ELSE @]

updatedRow(row, status, events, dtExpected, time) ==
    [row EXCEPT !.currentStatus = status,
                !.events = events,
                !.updatedAt = time,
                !.dtExpected = IF truthy(dtExpected) THEN dtExpected ELSE @]

hasStatusChanged(tracking, newStatus) == tracking.currentStatus # newStatus

(* The rows the table starts with: one finished shipment (code 0) and      *)
(* MaxRecords shipments under way, of four kinds in turn.                  *)
RowKinds ==
    << [currentStatus |-> "Objeto em transferencia - por favor aguarde",
        events |-> <<mapEvento(CeTransferencia), mapEvento(CePostado)>>,
        deliveryChannel |-> DeliveryChannel.PICKUP_IN_POINT],
       [currentStatus |-> "Objeto em transferencia - por favor aguarde",
        events |-> <<mapEvento(CeTransferencia), mapEvento(CePostado)>>,
        deliveryChannel |-> DeliveryChannel.DELIVERY],
       [currentStatus |-> "Etiqueta emitida",
        events |-> <<>>,
        deliveryChannel |-> DeliveryChannel.DELIVERY],
       [currentStatus |-> "Objeto saiu para entrega ao destinatario",
        events |-> <<mapEvento(CeSaiuParaEntrega), mapEvento(CeTransferencia)>>,
        deliveryChannel |-> DeliveryChannel.DELIVERY] >>

InitialTable ==
    [c \in Codes |->
        IF c = 0
        THEN Row(0, "Objeto entregue ao destinatario",
                 <<mapEvento(CeEntregue), mapEvento(CeSaiuParaEntrega)>>,
                 DeliveryChannel.DELIVERY, NoText, 0)
        ELSE LET kind == RowKinds[((c - 1) % Len(RowKinds)) + 1]
             IN  Row(c, kind.currentStatus, kind.events, kind.deliveryChannel,
                     NoText, 0 - c)]

(* What retryWithBackoff settles with inside the lookups of a pass: the    *)
(* carrier's history of a shipment, or a 503 on every attempt.             *)
CeAindaNaoChegou ==
    Evento("Objeto ainda nao chegou a unidade", "2024-01-03T07:00:00Z", NoText,
           Unidade("Unidade de Distribuicao", Endereco("Sao Paulo", "SP")),
           NoUnidade)

CeTransferenciaSeguinte ==
    Evento("Objeto em transferencia - por favor aguarde",
           "2024-01-02T20:30:00Z", NoText,
           Unidade("Unidade de Tratamento", Endereco("Sao Paulo", "SP")),
           Unidade("Unidade de Distribuicao", Endereco("Sao Paulo", "SP")))

LookupEndings ==
    { Ok([objetos |-> << Objeto(NoText, eventos, NoText) >>]) :
         eventos \in { <<CeTransferencia, CePostado>>,
                       <<CeSaiuParaEntrega, CeTransferencia>>,
                       <<CeAindaNaoChegou, CeTransferencia>> } }
    \cup { Ok([objetos |-> << Objeto(NoText,
                                     <<CeTransferenciaSeguinte, CeTransferencia,
                                       CePostado>>,
                                     "2024-01-10") >>]),
           Fail(classifyHttpError(503, "Erro ao consultar rastreamento: 503")) }

(***************************************************************************)
(*  State of the job:                                                      *)
(*    table                the tracking table, by tracking code            *)
(*    consecutiveFailures  the module-level counter, shared by all passes  *)
(*  and for each pass:                                                     *)
(*    jobPc       "idle", "fetching" (awaits findPendingTrackings),        *)
(*                "lookup" (awaits trackCorreios), "ucFind" (execute       *)
(*                awaits findByTrackingCode), "ucUpdate" (execute awaits   *)
(*                updateStatus), "publishing" (execute awaits publish),    *)
(*                "pausing" (awaits the failure timer), "done" (returned   *)
(*                after the final report), "critical" (returned from the   *)
(*                outer catch block)                                       *)
(*    trackings   the list findPendingTrackings resolved with              *)
(*    cursor      position of the for loop in trackings                    *)
(*    successCount, errorCount, updatedCount, skippedCount   the metrics   *)
(*    trackingData     the lookup result of the record in hand             *)
(*    currentTracking  the row execute re-read                             *)
(*    journal     per record of the pass, what was called for it           *)
(***************************************************************************)
VARIABLES table, consecutiveFailures, jobPc, trackings, cursor, successCount,
          errorCount, updatedCount, skippedCount, trackingData,
          currentTracking, journal

jobVars ==
    <<table, consecutiveFailures, jobPc, trackings, cursor, successCount,
      errorCount, updatedCount, skippedCount, trackingData, currentTracking,
      journal>>

JobIdle ==
    /\ consecutiveFailures = 0
    /\ jobPc = [j \in Passes |-> "idle"]
    /\ trackings = [j \in Passes |-> <<>>]
    /\ cursor = [j \in Passes |-> 0]
    /\ successCount = [j \in Passes |-> 0]
    /\ errorCount = [j \in Passes |-> 0]
    /\ updatedCount = [j \in Passes |-> 0]
    /\ skippedCount = [j \in Passes |-> 0]
    /\ trackingData = [j \in Passes |-> Undefined]
    /\ currentTracking = [j \in Passes |-> Null]
    /\ journal = [j \in Passes |-> <<>>]

JournalEntry(tracking) ==
    [tracking |-> tracking, lookup |-> "pending", answer |-> Undefined,
     result |-> Undefined,
     executeCalls |-> 0, findCalls |-> 0, updateCalls |-> 0,
     publishCalls |-> 0, sendCalls |-> 0, outcome |-> "pending",
     waitTime |-> 0]

(* The journal of pass j with the entry of the record in hand changed.     *)
noted(j, entry) == [journal[j] EXCEPT ![cursor[j]] = entry]

inHand(j) == journal[j][cursor[j]]

(* The loop moves on: the next record's trackCorreios is called, or the    *)
(* loop ends and the pass reports.  jr is the journal of the pass so far.  *)
NextRecord(j, jr) ==
    /\ cursor' = [cursor EXCEPT ![j] = @ + 1]
    /\ IF cursor[j] + 1 <= Len(trackings[j])
       THEN /\ jobPc' = [jobPc EXCEPT ![j] = "lookup"]
            /\ journal' = [journal EXCEPT ![j] =
                  Append(jr, JournalEntry(trackings[j][cursor[j] + 1]))]
       ELSE /\ jobPc' = [jobPc EXCEPT ![j] = "done"]
            /\ journal' = [journal EXCEPT ![j] = jr]

waitTimeAfter_uncapped(failures) ==
    IF failures >= MAX_CONSECUTIVE_FAILURES
    THEN FAILURE_WAIT_TIME * (failures - MAX_CONSECUTIVE_FAILURES + 1)
    ELSE 0

(* The wait the catch block takes with the counter at failures; 0: none.   *)
waitTimeAfter(failures) ==
    IF failures >= MAX_CONSECUTIVE_FAILURES
    THEN FAILURE_WAIT_TIME * Min(failures - MAX_CONSECUTIVE_FAILURES + 1, 5)
    ELSE 0

isTemporary_never(error) == FALSE

isTemporary(error) == error.cls = "ClassifiedError" /\ error.type = TEMPORARY

JobCatch_leavesLoop(j, error, entry) ==
    IF isTemporary(error)
    THEN /\ skippedCount' = [skippedCount EXCEPT ![j] = @ + 1]
         /\ NextRecord(j, noted(j, [entry EXCEPT !.outcome = "skipped"]))
         /\ UNCHANGED <<errorCount, consecutiveFailures>>
    ELSE /\ errorCount' = [errorCount EXCEPT ![j] = @ + 1]
         /\ consecutiveFailures' = consecutiveFailures + 1
         /\ jobPc' = [jobPc EXCEPT ![j] = "done"]
         /\ journal' = [journal EXCEPT ![j] =
                           noted(j, [entry EXCEPT !.outcome = "failed"])]
         /\ UNCHANGED <<cursor, skippedCount>>

(* The catch block of the loop body, entered with error; entry is the     *)
(* journal entry of the record in hand.                                    *)
JobCatch(j, error, entry) ==
    IF isTemporary(error)
    THEN /\ skippedCount' = [skippedCount EXCEPT ![j] = @ + 1]
         /\ NextRecord(j, noted(j, [entry EXCEPT !.outcome = "skipped"]))
         /\ UNCHANGED <<errorCount, consecutiveFailures>>
    ELSE /\ errorCount' = [errorCount EXCEPT ![j] = @ + 1]
         /\ consecutiveFailures' = consecutiveFailures + 1
         /\ LET waitTime == waitTimeAfter(consecutiveFailures + 1)
                failed == [entry EXCEPT !.outcome = "failed",
                                        !.waitTime = waitTime]
            IN  IF waitTime > 0
                THEN /\ jobPc' = [jobPc EXCEPT ![j] = "pausing"]
                     /\ journal' = [journal EXCEPT ![j] = noted(j, failed)]
                     /\ UNCHANGED cursor
                ELSE NextRecord(j, noted(j, failed))
         /\ UNCHANGED skippedCount

needsUpdate_always(tracking, lookedUp) == TRUE

(* statusChanged || eventsChanged, as the job computes them.               *)
needsUpdate_statusOnly(tracking, lookedUp) ==
    lookedUp.status # tracking.currentStatus

needsUpdate(tracking, lookedUp) ==
    LET statusChanged == lookedUp.status # tracking.currentStatus
        eventsChanged == hasNewEvents(tracking.events, lookedUp.events)
    IN  statusChanged \/ eventsChanged

notifies_statusOnly(current, request) ==
    hasStatusChanged(current, request.status)

(* statusChanged || eventsChanged, as execute computes them.               *)
notifies_always(current, request) == TRUE

notifies(current, request) ==
    LET statusChanged == hasStatusChanged(current, request.status)
        eventsChanged == hasNewEvents(current.events, request.events)
    IN  statusChanged \/ eventsChanged

(* The cron callback: processTrackings up to its first await.              *)
ProcessTrackings(j) ==
    /\ jobPc[j] = "idle"
    /\ jobPc' = [jobPc EXCEPT ![j] = "fetching"]
    /\ UNCHANGED <<table, consecutiveFailures, trackings, cursor, successCount,
                   errorCount, updatedCount, skippedCount, trackingData,
                   currentTracking, journal>>

(* findPendingTrackings resolves: the metrics and the counter are zeroed   *)
(* and the loop calls trackCorreios for the first record, if any.          *)
FindPendingReturns(j, dbOk) ==
    /\ jobPc[j] = "fetching"
    /\ LET found == findPendingTrackings(table, dbOk)
       IN  /\ trackings' = [trackings EXCEPT ![j] = found]
           /\ cursor' = [cursor EXCEPT ![j] = 1]
           /\ IF Len(found) > 0
              THEN /\ jobPc' = [jobPc EXCEPT ![j] = "lookup"]
                   /\ journal' = [journal EXCEPT ![j] =
                                     <<JournalEntry(found[1])>>]
              ELSE /\ jobPc' = [jobPc EXCEPT ![j] = "done"]
                   /\ journal' = [journal EXCEPT ![j] = <<>>]
    /\ successCount' = [successCount EXCEPT ![j] = 0]
    /\ errorCount' = [errorCount EXCEPT ![j] = 0]
    /\ updatedCount' = [updatedCount EXCEPT ![j] = 0]
    /\ skippedCount' = [skippedCount EXCEPT ![j] = 0]
    /\ consecutiveFailures' = 0
    /\ UNCHANGED <<table, trackingData, currentTracking>>

FindPendingRejects_uncaught(j) ==
    /\ jobPc[j] = "fetching"
    /\ jobPc' = [jobPc EXCEPT ![j] = "rejected"]
    /\ UNCHANGED <<table, consecutiveFailures, trackings, cursor, successCount,
                   errorCount, updatedCount, skippedCount, trackingData,
                   currentTracking, journal>>

(* findPendingTrackings rejects (the awaited query throws instead of       *)
(* answering with an error object): the outer catch block logs and the     *)
(* pass returns; the counter and the metrics were not touched.             *)
FindPendingRejects(j) ==
    /\ jobPc[j] = "fetching"
    /\ jobPc' = [jobPc EXCEPT ![j] = "critical"]
    /\ UNCHANGED <<table, consecutiveFailures, trackings, cursor, successCount,
                   errorCount, updatedCount, skippedCount, trackingData,
                   currentTracking, journal>>

(* trackCorreios settles.  Rejected: the catch block.  Resolved: count the *)
(* success, zero the counter, compare with the fetched record and either   *)
(* call execute (which awaits findByTrackingCode) or move on.              *)
LookupSettles(j, ending) ==
    /\ jobPc[j] = "lookup"
    /\ LET tracking == trackings[j][cursor[j]]
           settled == trackCorreiosSettle(ending, now)
       IN  IF ~settled.ok
           THEN /\ JobCatch(j, settled.error,
                            [inHand(j) EXCEPT !.lookup = "rejected",
                                              !.answer = ending,
                                              !.result = settled.error])
                /\ UNCHANGED <<successCount, trackingData>>
           ELSE LET entry == [inHand(j) EXCEPT !.lookup = "resolved",
                                               !.answer = ending,
                                               !.result = settled.value]
                IN  /\ successCount' = [successCount EXCEPT ![j] = @ + 1]
                    /\ consecutiveFailures' = 0
                    /\ trackingData' = [trackingData EXCEPT ![j] = settled.value]
                    /\ IF needsUpdate(tracking, settled.value)
                       THEN /\ jobPc' = [jobPc EXCEPT ![j] = "ucFind"]
                            /\ journal' = [journal EXCEPT ![j] = noted(j,
                                  [entry EXCEPT !.executeCalls = @ + 1,
                                                !.findCalls = @ + 1])]
                            /\ UNCHANGED cursor
                       ELSE NextRecord(j, noted(j,
                               [entry EXCEPT !.outcome = "unchanged"]))
                    /\ UNCHANGED <<errorCount, skippedCount>>
    /\ UNCHANGED <<table, trackings, updatedCount, currentTracking>>

(* execute: findByTrackingCode resolves; null throws into the job's catch, *)
(* otherwise the two comparisons are made and updateStatus is called.      *)
UcFindReturns(j, dbOk) ==
    /\ jobPc[j] = "ucFind"
    /\ LET found == findByTrackingCode(table,
                       trackings[j][cursor[j]].trackingCode, dbOk)
       IN  IF found.isNull
           THEN /\ JobCatch(j, PlainError("Tracking nao encontrado"),
                            inHand(j))
                /\ UNCHANGED currentTracking
           ELSE /\ currentTracking' = [currentTracking EXCEPT ![j] = found]
                /\ jobPc' = [jobPc EXCEPT ![j] = "ucUpdate"]
                /\ journal' = [journal EXCEPT ![j] = noted(j,
                      [inHand(j) EXCEPT !.updateCalls = @ + 1])]
                /\ UNCHANGED <<consecutiveFailures, cursor, errorCount,
                               skippedCount>>
    /\ UNCHANGED <<table, trackings, successCount, updatedCount, trackingData>>

(* execute: updateStatus settles.  Rejected: the job's catch.  Resolved:   *)
(* the row is written; publish is called if execute saw a change (publish  *)
(* calls sendTrackingEmail unless it returns early), else execute returns  *)
(* and the job counts the update.                                          *)
UcUpdateReturns(j, dbOk) ==
    /\ jobPc[j] = "ucUpdate"
    /\ LET trackingCode == trackings[j][cursor[j]].trackingCode
           request == trackingData[j]
           event == [deliveryChannel |-> currentTracking[j].deliveryChannel,
                     newStatus |-> request.status]
       IN  IF ~dbOk \/ table[trackingCode].isNull
           THEN /\ JobCatch(j, PlainError("Tracking with tracking code not found"),
                            inHand(j))
                /\ UNCHANGED <<table, updatedCount>>
           ELSE /\ table' = [table EXCEPT ![trackingCode] =
                       updatedRow(@, request.status, request.events,
                                  request.dtPrevista, now)]
                /\ IF notifies(currentTracking[j], request)
                   THEN /\ jobPc' = [jobPc EXCEPT ![j] = "publishing"]
                        /\ journal' = [journal EXCEPT ![j] = noted(j,
                              [inHand(j) EXCEPT
                                  !.publishCalls = @ + 1,
                                  !.sendCalls =
                                      IF publishSends(event) THEN @ + 1 ELSE @])]
                        /\ UNCHANGED <<cursor, updatedCount>>
                   ELSE /\ updatedCount' = [updatedCount EXCEPT ![j] = @ + 1]
                        /\ NextRecord(j, noted(j,
                              [inHand(j) EXCEPT !.outcome = "updated"]))
                /\ UNCHANGED <<consecutiveFailures, errorCount, skippedCount>>
    /\ UNCHANGED <<trackings, successCount, trackingData, currentTracking>>

(* publish resolves (it swallows what sendTrackingEmail throws): execute   *)
(* returns and the job counts the update.                                  *)
PublishSettles(j) ==
    /\ jobPc[j] = "publishing"
    /\ updatedCount' = [updatedCount EXCEPT ![j] = @ + 1]
    /\ NextRecord(j, noted(j, [inHand(j) EXCEPT !.outcome = "updated"]))
    /\ UNCHANGED <<table, consecutiveFailures, trackings, successCount,
                   errorCount, skippedCount, trackingData, currentTracking>>

(* The failure timer fires and the loop moves on.                          *)
PauseEnds_timerRearmed(j) ==
    /\ jobPc[j] = "pausing"
    /\ UNCHANGED jobVars

PauseEnds(j) ==
    /\ jobPc[j] = "pausing"
    /\ NextRecord(j, journal[j])
    /\ UNCHANGED <<table, consecutiveFailures, trackings, successCount,
                   errorCount, updatedCount, skippedCount, trackingData,
                   currentTracking>>

(***************************************************************************)
(*  classifyHttpError / classifyNetworkError applied to an input:          *)
(*    classifyInput  the call: which classifier, and its arguments         *)
(*    classified     the ClassifiedError it returned                       *)
(***************************************************************************)
VARIABLES classifyInput, classified

classifyVars == <<classifyInput, classified>>

ClassifyIdle ==
    /\ classifyInput = [kind |-> "none", statusCode |-> 0, message |-> "",
                        error |-> Undefined]
    /\ classified = Undefined

HttpMessages == {"Erro ao consultar rastreamento", "Not found"}

NetworkErrors == {PlainError("Network timeout"), PlainError("fetch failed")}

ApplyClassifyHttpError ==
    \E statusCode \in HttpCodes, message \in HttpMessages :
        /\ classifyInput.kind = "none"
        /\ classifyInput' = [kind |-> "http", statusCode |-> statusCode,
                             message |-> message, error |-> Undefined]
        /\ classified' = classifyHttpError(statusCode, message)

ApplyClassifyNetworkError ==
    \E error \in NetworkErrors :
        /\ classifyInput.kind = "none"
        /\ classifyInput' = [kind |-> "network", statusCode |-> 0,
                             message |-> error.message, error |-> error]
        /\ classified' = classifyNetworkError(error)

(***************************************************************************)
(* Specifications.                                                         *)
(***************************************************************************)
vars ==
    <<retryVars, classifyVars, compareVars, publishVars, tokenVars, trackVars,
      jobVars>>

AllIdle ==
    /\ RetryIdle
    /\ ClassifyIdle
    /\ CompareIdle
    /\ PublishIdle
    /\ TokenIdle
    /\ TrackIdle
    /\ JobIdle

(* The module state after load, leaving open whether the credentials are   *)
(* configured in the environment.                                          *)
InitAnyEnvironment ==
    /\ AllIdle
    /\ table = InitialTable
    /\ credentials \in BOOLEAN

InitIdle ==
    /\ InitAnyEnvironment
    /\ credentials = TRUE

otherThanRetry ==
    <<classifyVars, compareVars, publishVars, tokenVars, trackVars, jobVars>>
otherThanClassify ==
    <<retryVars, compareVars, publishVars, tokenVars, trackVars, jobVars>>
otherThanCompare ==
    <<retryVars, classifyVars, publishVars, tokenVars, trackVars, jobVars>>
otherThanPublish ==
    <<retryVars, classifyVars, compareVars, tokenVars, trackVars, jobVars>>
otherThanToken ==
    <<retryVars, classifyVars, compareVars, publishVars, trackVars, jobVars>>
otherThanTrack ==
    <<classifyVars, compareVars, publishVars, jobVars>>
otherThanJob ==
    <<retryVars, classifyVars, compareVars, publishVars, tokenVars, trackVars>>

(* One run of retryWithBackoff over an operation whose outcomes are free.  *)
NextRetry ==
    \/ (\E opts \in RetryOptionSets : RetryStart(opts))
          /\ UNCHANGED otherThanRetry
    \/ (\E o \in FnOutcomes : RetryFnSettles(o)) /\ UNCHANGED otherThanRetry
    \/ RetryWake /\ UNCHANGED otherThanRetry

SpecRetry == InitIdle /\ [][NextRetry]_vars

(* The two error classifiers applied to every input of the bounded sets.   *)
NextClassify ==
    \/ ApplyClassifyHttpError /\ UNCHANGED otherThanClassify
    \/ ApplyClassifyNetworkError /\ UNCHANGED otherThanClassify

SpecClassify == InitIdle /\ [][NextClassify]_vars

(* hasNewEvents applied to every pair of event lists of the bounded sets.  *)
NextCompare == ApplyHasNewEvents /\ UNCHANGED otherThanCompare

SpecCompare == InitIdle /\ [][NextCompare]_vars

(* publish applied to an event of every channel and status.                *)
PublishEvents == [deliveryChannel : DeliveryChannelValues,
                  newStatus : TrackingStatusValues]

NextPublish ==
    \/ (\E event \in PublishEvents : Publish(event))
          /\ UNCHANGED otherThanPublish
    \/ (\E outcome \in SendOutcomes : PublishSendSettles(outcome))
          /\ UNCHANGED otherThanPublish

SpecPublish == InitIdle /\ [][NextPublish]_vars

(* Concurrent callers of getValidToken, the authentication endpoint and    *)
(* the clock.                                                              *)
NextToken ==
    \/ (\E c \in Callers : GetValidToken(c)) /\ UNCHANGED otherThanToken
    \/ (\E id \in 1..MaxAcquisitions, answer \in AuthAnswers :
            AuthResponds(id, answer)) /\ UNCHANGED otherThanToken
    \/ (\E id \in 1..MaxAcquisitions : TokenPromiseFinally(id))
          /\ UNCHANGED otherThanToken
    \/ (\E c \in Callers : CallerResumes(c)) /\ UNCHANGED otherThanToken
    \/ Tick /\ UNCHANGED otherThanToken

SpecToken == InitIdle /\ [][NextToken]_vars

(* The same, in a process started with or without its credentials.         *)
SpecTokenAnyEnv == InitAnyEnvironment /\ [][NextToken]_vars

(* The same callers, with clearCache called at any moment.                 *)
NextTokenClear ==
    \/ (\E c \in Callers : GetValidToken(c)) /\ UNCHANGED otherThanToken
    \/ (\E id \in 1..MaxAcquisitions, answer \in AuthAnswers :
            AuthResponds(id, answer)) /\ UNCHANGED otherThanToken
    \/ (\E id \in 1..MaxAcquisitions : TokenPromiseFinally(id))
          /\ UNCHANGED otherThanToken
    \/ (\E c \in Callers : CallerResumes(c)) /\ UNCHANGED otherThanToken
    \/ ClearCache /\ UNCHANGED otherThanToken
    \/ Tick /\ UNCHANGED otherThanToken

SpecTokenClear == InitIdle /\ [][NextTokenClear]_vars

(* One call of trackCorreios against a carrier whose answers are free,     *)
(* while the clock runs.                                                   *)
NextTrack ==
    \/ TrackCorreios /\ UNCHANGED <<otherThanTrack, tokenVars>>
    \/ (\E env \in FetchEnvironments : TrackFetchSettles(env))
          /\ UNCHANGED <<otherThanTrack, tokenVars>>
    \/ TrackBackoffEnds /\ UNCHANGED <<otherThanTrack, tokenVars>>
    \/ TrackCorreiosSettles /\ UNCHANGED <<otherThanTrack, tokenVars>>
    \/ Tick /\ UNCHANGED <<otherThanTrack, retryVars, trackVars>>

SpecTrack == InitIdle /\ [][NextTrack]_vars

(* One call of trackCorreios with the token service behind it: attempt n   *)
(* of the call is caller n of getValidToken, and the carrier is asked with *)
(* what that caller received.  clearCache may be called at any moment.     *)
CarrierAnswers ==
    { [kind |-> "response", status |-> 200,
       body |-> [objetos |-> << Objeto(NoText, <<CePostado>>, "2024-01-10") >>]] }
    \cup { [kind |-> "response", status |-> status, body |-> NoBody] :
               status \in {401, 403, 404, 503} }
    \cup { [kind |-> "networkError", status |-> 0, body |-> NoBody] }

AttemptGetsToken ==
    /\ trackPc = "retrying"
    /\ retryPc = "calling"
    /\ fnCalls \in Callers
    /\ GetValidToken(fnCalls)
    /\ UNCHANGED <<retryVars, trackVars>>

AttemptSettles_dropsRefusedToken(carrier) ==
    /\ trackPc = "retrying"
    /\ fnCalls \in Callers
    /\ callerPc[fnCalls] = "returned"
    /\ RetryFnSettles(fetchTrackingData(
          FetchEnv(got[fnCalls], carrier.kind, carrier.status, carrier.body)))
    /\ tokenCache' = IF got[fnCalls].ok /\ carrier.status \in {401, 403}
                     THEN Null ELSE tokenCache
    /\ UNCHANGED <<tokenPromise, acquisitions, now, callerPc, awaited, got,
                   missAtStart, pendingAtStart, credentials, trackVars>>

(* The attempt's fetchTrackingData settles: with the failure of            *)
(* getValidToken, or with what the carrier answers to the token.           *)
AttemptSettles(carrier) ==
    /\ trackPc = "retrying"
    /\ fnCalls \in Callers
    /\ callerPc[fnCalls] = "returned"
    /\ RetryFnSettles(fetchTrackingData(
          FetchEnv(got[fnCalls], carrier.kind, carrier.status, carrier.body)))
    /\ UNCHANGED <<tokenVars, trackVars>>

NextLookup ==
    \/ TrackCorreios /\ UNCHANGED <<otherThanTrack, tokenVars>>
    \/ AttemptGetsToken /\ UNCHANGED otherThanTrack
    \/ (\E id \in 1..MaxAcquisitions, answer \in AuthAnswers :
            AuthResponds(id, answer)) /\ UNCHANGED otherThanToken
    \/ (\E id \in 1..MaxAcquisitions : TokenPromiseFinally(id))
          /\ UNCHANGED otherThanToken
    \/ (\E c \in Callers : CallerResumes(c)) /\ UNCHANGED otherThanToken
    \/ (\E carrier \in CarrierAnswers : AttemptSettles(carrier))
          /\ UNCHANGED otherThanTrack
    \/ TrackBackoffEnds /\ UNCHANGED <<otherThanTrack, tokenVars>>
    \/ TrackCorreiosSettles /\ UNCHANGED <<otherThanTrack, tokenVars>>
    \/ ClearCache /\ UNCHANGED otherThanToken
    \/ Tick /\ UNCHANGED otherThanToken

SpecLookup == InitIdle /\ [][NextLookup]_vars

(* One pass of the job, alone, over the table, with a carrier and a store  *)
(* whose answers are free.  The pass never reaches its pause (see C5), so  *)
(* the failure timer has nothing to end here.                              *)
NextPass ==
    \/ ProcessTrackings("NORMAL") /\ UNCHANGED otherThanJob
    \/ (\E dbOk \in BOOLEAN : FindPendingReturns("NORMAL", dbOk))
          /\ UNCHANGED otherThanJob
    \/ FindPendingRejects("NORMAL") /\ UNCHANGED otherThanJob
    \/ (\E ending \in LookupEndings : LookupSettles("NORMAL", ending))
          /\ UNCHANGED otherThanJob
    \/ (\E dbOk \in BOOLEAN : UcFindReturns("NORMAL", dbOk))
          /\ UNCHANGED otherThanJob
    \/ (\E dbOk \in BOOLEAN : UcUpdateReturns("NORMAL", dbOk))
          /\ UNCHANGED otherThanJob
    \/ PublishSettles("NORMAL") /\ UNCHANGED otherThanJob

SpecPass == InitIdle /\ [][NextPass]_vars

(* One call of trackCorreios answered at once with a history whose latest  *)
(* event carries each description in turn, over older events.              *)
OlderEventos == {<<>>, <<CePostado>>, <<CeTransferencia, CePostado>>}

StatusEnvironments ==
    { FetchEnv(Ok("token"), "response", 200,
               [objetos |-> << Objeto(NoText,
                     <<Evento(d, "2024-01-04T09:00:00Z", NoText, NoUnidade,
                              NoUnidade)>> \o older,
                     NoText) >>]) :
         d \in Descriptions, older \in OlderEventos }

NextStatus ==
    \/ TrackCorreios /\ UNCHANGED <<otherThanTrack, tokenVars>>
    \/ (\E env \in StatusEnvironments : TrackFetchSettles(env))
          /\ UNCHANGED <<otherThanTrack, tokenVars>>
    \/ TrackCorreiosSettles /\ UNCHANGED <<otherThanTrack, tokenVars>>

SpecStatus == InitIdle /\ [][NextStatus]_vars

(* Two passes under way at once (node-cron starts a callback whether or    *)
(* not an earlier one has returned) over a table of MaxSharedRecords       *)
(* shipments under way.  The carrier answers a lookup with a history that  *)
(* has a new event, with 404 on the first attempt (permanent) or with 503  *)
(* on every attempt (temporary); the store serves or fails each call.      *)
(* Two passes never take the pause (each zeroes the counter before it can  *)
(* fail), so the failure timer has no step here.                           *)
MaxSharedRecords == 2

SharedTable ==
    [c \in Codes |->
        IF c \in 1..MaxSharedRecords
        THEN LET kind == RowKinds[(c % Len(RowKinds)) + 1]
             IN  Row(c, kind.currentStatus, kind.events, kind.deliveryChannel,
                     NoText, 0 - c)
        ELSE Null]

NotFound404 == Fail(classifyHttpError(404, "Erro ao consultar rastreamento: 404"))

Unavailable503 == Fail(classifyHttpError(503, "Erro ao consultar rastreamento: 503"))

OutForDelivery ==
    Ok([objetos |-> << Objeto(NoText, <<CeSaiuParaEntrega, CeTransferencia>>,
                              NoText) >>])

OverlapEndings == {OutForDelivery, NotFound404, Unavailable503}

InitOverlap ==
    /\ AllIdle
    /\ table = SharedTable
    /\ credentials = TRUE

NextOverlap ==
    \/ (\E j \in JobTypes : ProcessTrackings(j)) /\ UNCHANGED otherThanJob
    \/ (\E j \in JobTypes, dbOk \in BOOLEAN : FindPendingReturns(j, dbOk))
          /\ UNCHANGED otherThanJob
    \/ (\E j \in JobTypes : FindPendingRejects(j)) /\ UNCHANGED otherThanJob
    \/ (\E j \in JobTypes, ending \in OverlapEndings : LookupSettles(j, ending))
          /\ UNCHANGED otherThanJob
    \/ (\E j \in JobTypes, dbOk \in BOOLEAN : UcFindReturns(j, dbOk))
          /\ UNCHANGED otherThanJob
    \/ (\E j \in JobTypes, dbOk \in BOOLEAN : UcUpdateReturns(j, dbOk))
          /\ UNCHANGED otherThanJob
    \/ (\E j \in JobTypes : PublishSettles(j)) /\ UNCHANGED otherThanJob

SpecOverlap == InitOverlap /\ [][NextOverlap]_vars

(* Three passes under way at once over the same table: the least number    *)
(* that can bring the shared counter to MAX_CONSECUTIVE_FAILURES, since    *)
(* every pass zeroes it when its own lookup resolves.  The carrier answers *)
(* with a new event or with 503 on every attempt.                          *)
PassEndings == {OutForDelivery, Unavailable503}

NextPasses ==
    \/ (\E j \in Passes : ProcessTrackings(j)) /\ UNCHANGED otherThanJob
    \/ (\E j \in Passes, dbOk \in BOOLEAN : FindPendingReturns(j, dbOk))
          /\ UNCHANGED otherThanJob
    \/ (\E j \in Passes : FindPendingRejects(j)) /\ UNCHANGED otherThanJob
    \/ (\E j \in Passes, ending \in PassEndings : LookupSettles(j, ending))
          /\ UNCHANGED otherThanJob
    \/ (\E j \in Passes, dbOk \in BOOLEAN : UcFindReturns(j, dbOk))
          /\ UNCHANGED otherThanJob
    \/ (\E j \in Passes, dbOk \in BOOLEAN : UcUpdateReturns(j, dbOk))
          /\ UNCHANGED otherThanJob
    \/ (\E j \in Passes : PublishSettles(j)) /\ UNCHANGED otherThanJob
    \/ (\E j \in Passes : PauseEnds(j)) /\ UNCHANGED otherThanJob

SpecPasses == InitOverlap /\ [][NextPasses]_vars

(* Two consecutive passes: the second schedule fires after the first pass  *)
(* has returned, at a later reading of the clock.  The carrier may also    *)
(* answer that it does not know the object (a label not yet posted).       *)
NotPostedYet ==
    Ok([objetos |-> << Objeto("SRO-020: Objeto nao encontrado na base de dados dos Correios.",
                              <<>>, NoText) >>])

ConsecutiveEndings == OverlapEndings \cup {NotPostedYet}

Returned(j) == jobPc[j] \in {"done", "critical"}

TimePasses ==
    /\ Returned("NORMAL")
    /\ jobPc["PICO-EXTRA"] = "idle"
    /\ Tick

NextConsecutive ==
    \/ ProcessTrackings("NORMAL") /\ UNCHANGED otherThanJob
    \/ TimePasses /\ UNCHANGED <<retryVars, classifyVars, compareVars,
                                  publishVars, trackVars, jobVars>>
    \/ (now > 0 /\ ProcessTrackings("PICO-EXTRA")) /\ UNCHANGED otherThanJob
    \/ (\E j \in JobTypes, dbOk \in BOOLEAN : FindPendingReturns(j, dbOk))
          /\ UNCHANGED otherThanJob
    \/ (\E j \in JobTypes : FindPendingRejects(j)) /\ UNCHANGED otherThanJob
    \/ (\E j \in JobTypes, ending \in ConsecutiveEndings :
            LookupSettles(j, ending))
          /\ UNCHANGED otherThanJob
    \/ (\E j \in JobTypes, dbOk \in BOOLEAN : UcFindReturns(j, dbOk))
          /\ UNCHANGED otherThanJob
    \/ (\E j \in JobTypes, dbOk \in BOOLEAN : UcUpdateReturns(j, dbOk))
          /\ UNCHANGED otherThanJob
    \/ (\E j \in JobTypes : PublishSettles(j)) /\ UNCHANGED otherThanJob

SpecConsecutive == InitOverlap /\ [][NextConsecutive]_vars

(* findPendingTrackings applied to stored tables: the first                *)
(* MaxSharedRecords rows carry any status of the enum or any status that   *)
(* trackCorreios resolves with (the job stores trackingData.status as is). *)
LookupStatuses ==
    {ClassificationRules[k][2] : k \in DOMAIN ClassificationRules}
       \cup {DefaultStatus, "Etiqueta emitida", "Objeto nao encontrado",
             "Erro na consulta"}

StoredStatuses == TrackingStatusValues \cup LookupStatuses

StoredTables ==
    { [c \in Codes |->
          IF c \in 1..MaxSharedRecords
          THEN Row(c, status[c], <<>>, DeliveryChannel.DELIVERY, NoText, 0 - c)
          ELSE Null] : status \in [1..MaxSharedRecords -> StoredStatuses] }

InitStored ==
    /\ AllIdle
    /\ table \in StoredTables
    /\ credentials = TRUE

NextPending ==
    \/ ProcessTrackings("NORMAL") /\ UNCHANGED otherThanJob
    \/ FindPendingReturns("NORMAL", TRUE) /\ UNCHANGED otherThanJob

SpecPending == InitStored /\ [][NextPending]_vars

(* One pass followed step by step while other invocations of               *)
(* processTrackings run: all that the pass sees of them is the module-     *)
(* level counter, which they increment in their catch block and zero after *)
(* their fetch and after each of their lookups.  MaxFailures caps the      *)
(* increments of the others.                                               *)
MaxFailures == 8

AnotherPassFails ==
    /\ consecutiveFailures < MaxFailures
    /\ consecutiveFailures' = consecutiveFailures + 1
    /\ UNCHANGED <<table, jobPc, trackings, cursor, successCount, errorCount,
                   updatedCount, skippedCount, trackingData, currentTracking,
                   journal>>

AnotherPassResets ==
    /\ consecutiveFailures > 0
    /\ consecutiveFailures' = 0
    /\ UNCHANGED <<table, jobPc, trackings, cursor, successCount, errorCount,
                   updatedCount, skippedCount, trackingData, currentTracking,
                   journal>>

NextBackoff ==
    \/ ProcessTrackings("NORMAL") /\ UNCHANGED otherThanJob
    \/ (\E dbOk \in BOOLEAN : FindPendingReturns("NORMAL", dbOk))
          /\ UNCHANGED otherThanJob
    \/ (\E ending \in PassEndings : LookupSettles("NORMAL", ending))
          /\ UNCHANGED otherThanJob
    \/ (\E dbOk \in BOOLEAN : UcFindReturns("NORMAL", dbOk))
          /\ UNCHANGED otherThanJob
    \/ (\E dbOk \in BOOLEAN : UcUpdateReturns("NORMAL", dbOk))
          /\ UNCHANGED otherThanJob
    \/ PublishSettles("NORMAL") /\ UNCHANGED otherThanJob
    \/ PauseEnds("NORMAL") /\ UNCHANGED otherThanJob
    \/ AnotherPassFails /\ UNCHANGED otherThanJob
    \/ AnotherPassResets /\ UNCHANGED otherThanJob

SpecBackoff == InitOverlap /\ [][NextBackoff]_vars

(* A pass whose awaited calls all complete.  PassContinues(j) is the step  *)
(* pass j takes when the promise it awaits settles: the batch fetch, the   *)
(* lookup (with its retries, however they end), the use case's find,       *)
(* update and publish, and the failure timer.  Whenever the pass is        *)
(* between its first line and its report exactly one of them is pending,   *)
(* and weak fairness on PassContinues says that it settles: the event loop *)
(* runs the continuation of every settled promise.  Nothing is assumed of  *)
(* the schedule that starts the pass nor of the other invocations, which   *)
(* go on moving the shared counter.                                        *)
PassContinues(j) ==
    \/ \E dbOk \in BOOLEAN : FindPendingReturns(j, dbOk)
    \/ FindPendingRejects(j)
    \/ \E ending \in PassEndings : LookupSettles(j, ending)
    \/ \E dbOk \in BOOLEAN : UcFindReturns(j, dbOk)
    \/ \E dbOk \in BOOLEAN : UcUpdateReturns(j, dbOk)
    \/ PublishSettles(j)
    \/ PauseEnds(j)

NextTerminates ==
    \/ ProcessTrackings("NORMAL") /\ UNCHANGED otherThanJob
    \/ (\E dbOk \in BOOLEAN : FindPendingReturns("NORMAL", dbOk))
          /\ UNCHANGED otherThanJob
    \/ FindPendingRejects("NORMAL") /\ UNCHANGED otherThanJob
    \/ (\E ending \in PassEndings : LookupSettles("NORMAL", ending))
          /\ UNCHANGED otherThanJob
    \/ (\E dbOk \in BOOLEAN : UcFindReturns("NORMAL", dbOk))
          /\ UNCHANGED otherThanJob
    \/ (\E dbOk \in BOOLEAN : UcUpdateReturns("NORMAL", dbOk))
          /\ UNCHANGED otherThanJob
    \/ PublishSettles("NORMAL") /\ UNCHANGED otherThanJob
    \/ PauseEnds("NORMAL") /\ UNCHANGED otherThanJob
    \/ AnotherPassFails /\ UNCHANGED otherThanJob
    \/ AnotherPassResets /\ UNCHANGED otherThanJob

AwaitedCallsComplete ==
    WF_vars(PassContinues("NORMAL") /\ UNCHANGED otherThanJob)

SpecTerminates == InitOverlap /\ [][NextTerminates]_vars /\ AwaitedCallsComplete

(***************************************************************************)
(* C6: a PERMANENT ClassifiedError ends the run at the invocation that     *)
(* threw it (so a permanent first failure means exactly one invocation,    *)
(* whatever maxAttempts is) and the run rejects with that error; a run in  *)
(* which every attempt failed with a non-PERMANENT error has invoked the   *)
(* operation exactly maxAttempts times and rejects with the error of the   *)
(* last attempt.                                                           *)
(***************************************************************************)
IsPermanentThrown(e) == e.cls = "ClassifiedError" /\ e.type = "permanent"

C6_RetryAttempts ==
    /\ fnCalls <= options.maxAttempts
    /\ \A k \in 1..Len(fnErrors) :
          IsPermanentThrown(fnErrors[k]) =>
             /\ k = Len(fnErrors)
             /\ fnCalls = k
             /\ retryPc = "rejected"
             /\ retryResult = Fail(fnErrors[k])
    /\ (retryPc = "rejected"
        /\ \A k \in 1..Len(fnErrors) : ~IsPermanentThrown(fnErrors[k]))
          => /\ fnCalls = options.maxAttempts
             /\ Len(fnErrors) = options.maxAttempts
             /\ retryResult = Fail(fnErrors[Len(fnErrors)])
    /\ (Len(fnErrors) = options.maxAttempts /\ retryPc # "idle")
          => retryPc = "rejected"

C6_Witness ==
    /\ retryPc = "rejected"
    /\ options.maxAttempts = 3
    /\ fnCalls = 1
    /\ IsPermanentThrown(retryResult.error)

(***************************************************************************)
(* C10: classifyHttpError yields TEMPORARY for 429, 500, 502, 503, 504,    *)
(* 401 and 403, PERMANENT for 400, 404 and 422, and TEMPORARY for every    *)
(* other code; classifyNetworkError always yields TEMPORARY and keeps the  *)
(* original error.                                                         *)
(***************************************************************************)
C10_Classification ==
    /\ classifyInput.kind = "http" =>
          /\ classified.cls = "ClassifiedError"
          /\ classified.message = classifyInput.message
          /\ classifyInput.statusCode \in {429, 500, 502, 503, 504, 401, 403}
                => classified.type = "temporary"
          /\ classifyInput.statusCode \in {400, 404, 422}
                => classified.type = "permanent"
          /\ classifyInput.statusCode
                \notin {429, 500, 502, 503, 504, 401, 403, 400, 404, 422}
                => classified.type = "temporary"
    /\ classifyInput.kind = "network" =>
          /\ classified.cls = "ClassifiedError"
          /\ classified.type = "temporary"
          /\ classified.originalError = classifyInput.error

C10_Witness ==
    /\ classifyInput.kind = "http"
    /\ classifyInput.statusCode = 403
    /\ classified.type = "temporary"

(***************************************************************************)
(* C8 as stated: hasNewEvents is false for every pair of equal length with *)
(* identical signature sets, and true for every pair that differs in       *)
(* length or in which a signature of one side, old or new, is absent from  *)
(* the other side.                                                         *)
(***************************************************************************)
Signatures(events) ==
    {createEventSignature(events[i]) : i \in 1..Len(events)}

C8_AsStated ==
    comparePc = "done" =>
       /\ (Len(oldEvents) = Len(newEvents)
           /\ Signatures(oldEvents) = Signatures(newEvents))
             => returned = FALSE
       /\ (Len(oldEvents) # Len(newEvents)
           \/ Signatures(oldEvents) # Signatures(newEvents))
             => returned = TRUE

(***************************************************************************)
(* C8 amended: hasNewEvents is false for every pair of equal length in     *)
(* which every new-side signature is in the old-side signature set (so for *)
(* identical signature sets), and true for every pair that differs in      *)
(* length or in which a new-side signature is absent from the old side; an *)
(* old-side signature absent from the new side does not by itself make it  *)
(* true.                                                                   *)
(***************************************************************************)
C8_NewSideOnly ==
    comparePc = "done" =>
       /\ (Len(oldEvents) = Len(newEvents)
           /\ Signatures(newEvents) \subseteq Signatures(oldEvents))
             => returned = FALSE
       /\ (Len(oldEvents) # Len(newEvents)
           \/ ~(Signatures(newEvents) \subseteq Signatures(oldEvents)))
             => returned = TRUE

C8_Witness ==
    /\ comparePc = "done"
    /\ Len(oldEvents) = Len(newEvents)
    /\ Signatures(newEvents) \subseteq Signatures(oldEvents)
    /\ Signatures(oldEvents) # Signatures(newEvents)
    /\ returned = FALSE

(***************************************************************************)
(* C9: publish attempts an email send iff the event's delivery channel is  *)
(* not pickup-in-point and its new status is not one of the seven silent   *)
(* statuses: nothing for pickup-in-point whatever the status, nothing for  *)
(* a silent status whatever the channel, one attempt in every other case.  *)
(***************************************************************************)
C9_SilentSet ==
    {"Favor desconsiderar a informacao anterior",
     "Objeto sera devolvido por solicitacao do contratante/remetente",
     "Etiqueta expirada",
     "Objeto entregue ao remetente",
     "Solicitacao de suspensao de entrega ao destinatario",
     "Objeto ainda nao chegou a unidade",
     "Carteiro saiu para coleta do objeto"}

C1_SingleFlight ==
    /\ Cardinality(Uncompleted) <= 1
    /\ \A id \in 1..Len(acquisitions) : acquisitions[id].requests = 1
    /\ \A c \in Callers :
          (callerPc[c] # "idle" /\ missAtStart[c]) =>
             /\ awaited[c] \in 1..Len(acquisitions)
             /\ pendingAtStart[c] # {} => awaited[c] \in pendingAtStart[c]
             /\ pendingAtStart[c] = {} => acquisitions[awaited[c]].startedBy = c
             /\ callerPc[c] = "returned" =>
                   /\ acquisitions[awaited[c]].inner # "pending"
                   /\ got[c] = acquisitions[awaited[c]].outcome

C1_Witness ==
    /\ Len(acquisitions) = 1
    /\ \A c \in Callers :
          /\ callerPc[c] = "returned"
          /\ missAtStart[c]
          /\ awaited[c] = 1
          /\ got[c] = acquisitions[1].outcome

(***************************************************************************)
(* C7: trackCorreios never rejects with a PERMANENT or unclassified        *)
(* failure.  When the lookup ended with a PERMANENT ClassifiedError, with  *)
(* a thrown value that is no ClassifiedError, or with the empty-answer     *)
(* error raised after the fetch, the call resolves with status "Erro na    *)
(* consulta" and exactly one event; it rejects only with the TEMPORARY     *)
(* ClassifiedError left after the three attempts were used up.             *)
(***************************************************************************)
IsTemporaryThrown(e) == e.cls = "ClassifiedError" /\ e.type = "temporary"

ResolvedAsLookupError ==
    /\ trackPc = "resolved"
    /\ trackResult.ok
    /\ trackResult.value.status = "Erro na consulta"
    /\ Len(trackResult.value.events) = 1

C7_NoPermanentRejection ==
    trackPc \in {"resolved", "rejected"} =>
       /\ trackPc = "rejected" =>
             /\ ~trackResult.ok
             /\ IsTemporaryThrown(trackResult.error)
             /\ retryPc = "rejected"
             /\ trackResult.error = retryResult.error
             /\ fnCalls = 3
             /\ \A k \in 1..3 : ~IsPermanentThrown(fnErrors[k])
       /\ (retryPc = "rejected" /\ ~IsTemporaryThrown(retryResult.error))
             => ResolvedAsLookupError
       /\ (retryPc = "resolved" /\ Len(retryResult.value.objetos) = 0)
             => ResolvedAsLookupError
       /\ (retryPc = "rejected" /\ IsTemporaryThrown(retryResult.error))
             => trackPc = "rejected"

C7_Witness ==
    /\ ResolvedAsLookupError
    /\ retryPc = "rejected"
    /\ IsPermanentThrown(retryResult.error)
    /\ fnCalls = 2

C7_WitnessUnclassified ==
    /\ ResolvedAsLookupError
    /\ retryPc = "rejected"
    /\ retryResult.error.cls = "NonError"

C7_WitnessRejects ==
    /\ trackPc = "rejected"
    /\ IsTemporaryThrown(trackResult.error)
    /\ fnCalls = 3

(***************************************************************************)
(* The record entries of the journal, and what the claims read off them.   *)
(***************************************************************************)
ChangedByLookup(e) ==
    /\ e.lookup = "resolved"
    /\ \/ e.result.status # e.tracking.currentStatus
       \/ Len(e.result.events) # Len(e.tracking.events)
       \/ \E i \in 1..Len(e.result.events) :
             createEventSignature(e.result.events[i])
                \notin Signatures(e.tracking.events)

C3_WriteAvoidance ==
    \A j \in JobTypes : \A k \in 1..Len(journal[j]) :
       LET e == journal[j][k]
       IN  e.lookup = "resolved" =>
              /\ ChangedByLookup(e) => e.executeCalls = 1
              /\ ~ChangedByLookup(e) =>
                    /\ e.executeCalls = 0
                    /\ e.findCalls = 0
                    /\ e.updateCalls = 0
                    /\ e.publishCalls = 0
                    /\ e.sendCalls = 0
                    /\ e.outcome = "unchanged"
                    /\ ~table[e.tracking.trackingCode].isNull
                    /\ table[e.tracking.trackingCode] = e.tracking

C3_Witness ==
    \E k \in 1..Len(journal["NORMAL"]) :
       LET e == journal["NORMAL"][k]
       IN  /\ e.lookup = "resolved"
           /\ ~ChangedByLookup(e)
           /\ Len(e.result.events) = 2
           /\ e.executeCalls = 0
           /\ successCount["NORMAL"] > updatedCount["NORMAL"]
           /\ jobPc["NORMAL"] = "done"

(***************************************************************************)
(* C4: the step in which trackCorreios rejects with a TEMPORARY error for  *)
(* a record leaves the table, the succeeded, permanently-failed and        *)
(* updated counts and the consecutive-failure counter as they were, adds   *)
(* one to the temporarily-skipped count only, takes no pause and goes on   *)
(* to the next record (or ends the loop); no store call and no publish is  *)
(* ever made for such a record.                                            *)
(***************************************************************************)
C4_TemporarySkip ==
    [][ \A j \in JobTypes :
          /\ (/\ jobPc[j] = "lookup"
              /\ journal'[j][cursor[j]].lookup = "rejected"
              /\ IsTemporaryThrown(journal'[j][cursor[j]].result))
                => /\ table' = table
                   /\ successCount' = successCount
                   /\ errorCount' = errorCount
                   /\ updatedCount' = updatedCount
                   /\ consecutiveFailures' = consecutiveFailures
                   /\ skippedCount'[j] = skippedCount[j] + 1
                   /\ cursor'[j] = cursor[j] + 1
                   /\ jobPc'[j] = IF cursor[j] < Len(trackings[j])
                                  THEN "lookup" ELSE "done"
                   /\ journal'[j][cursor[j]].waitTime = 0
          /\ \A k \in 1..Len(journal'[j]) :
                journal'[j][k].lookup = "rejected" =>
                   /\ journal'[j][k].executeCalls = 0
                   /\ journal'[j][k].findCalls = 0
                   /\ journal'[j][k].updateCalls = 0
                   /\ journal'[j][k].publishCalls = 0
                   /\ journal'[j][k].sendCalls = 0 ]_vars

C4_Witness ==
    /\ Len(journal["NORMAL"]) >= 3
    /\ journal["NORMAL"][1].outcome = "updated"
    /\ journal["NORMAL"][2].lookup = "rejected"
    /\ IsTemporaryThrown(journal["NORMAL"][2].result)
    /\ journal["NORMAL"][2].outcome = "skipped"
    /\ skippedCount["NORMAL"] = 1
    /\ successCount["NORMAL"] = 1
    /\ jobPc["NORMAL"] = "lookup"
    /\ cursor["NORMAL"] = 3

(***************************************************************************)
(* C5 as stated: within one pass, three consecutive permanent-class record *)
(* failures are followed by a pause before the fourth record is processed; *)
(* a record whose lookup succeeds has the counter at zero while it is in   *)
(* hand; and a pause is taken only after three consecutive failures.       *)
(***************************************************************************)
FailedRun(j, k, n) ==
    /\ k >= n
    /\ \A i \in (k - n + 1)..k : journal[j][i].outcome = "failed"

C5_PauseAfterThree ==
    \A j \in JobTypes : \A k \in 1..Len(journal[j]) :
       /\ FailedRun(j, k, 3) => journal[j][k].waitTime > 0
       /\ journal[j][k].waitTime > 0 => FailedRun(j, k, 3)
       /\ (k = cursor[j] /\ jobPc[j] \in {"ucFind", "ucUpdate", "publishing"})
             => consecutiveFailures = 0

(***************************************************************************)
(* What the code does instead: a pass running alone never pauses.  Every   *)
(* failure of the permanent class follows, in the same iteration, the      *)
(* resolved lookup that has just zeroed the counter, so the counter stands *)
(* at one after every failure, however many records fail in a row.         *)
(***************************************************************************)
C5_PassNeverPauses ==
    /\ consecutiveFailures <= 1
    /\ \A j \in JobTypes :
          /\ jobPc[j] # "pausing"
          /\ \A k \in 1..Len(journal[j]) :
                /\ journal[j][k].waitTime = 0
                /\ journal[j][k].outcome = "failed"
                      => journal[j][k].lookup = "resolved"

C5_ThreeFailuresNoPause ==
    /\ Len(journal["NORMAL"]) = 4
    /\ FailedRun("NORMAL", 3, 3)
    /\ journal["NORMAL"][3].waitTime = 0
    /\ jobPc["NORMAL"] = "lookup"
    /\ cursor["NORMAL"] = 4
    /\ consecutiveFailures = 1

(***************************************************************************)
(* C11: the status is that of the first rule, in the order of the chain,   *)
(* whose pattern occurs in the description of the most recent event (the   *)
(* default when none occurs).  A description containing "Objeto nao        *)
(* entregue - prazo de retirada encerrado" yields that status and never    *)
(* the generic "Objeto nao entregue"; one containing "Objeto entregue ao   *)
(* destinatario" yields delivered-to-recipient; one containing "Objeto em  *)
(* correcao de rota" is never given the transfer status; and whenever the  *)
(* pattern of one rule contains the pattern of another rule, the           *)
(* containing (more specific) rule comes first.                            *)
(***************************************************************************)
C11_FirstMatchWins ==
    /\ \A i \in DOMAIN ClassificationRules :
          \A j \in DOMAIN ClassificationRules :
             (i # j /\ isSubstring(ClassificationRules[j][1],
                                   ClassificationRules[i][1])) => i < j
    /\ (trackPc = "resolved" /\ retryPc = "resolved"
        /\ Len(retryResult.value.objetos) > 0
        /\ Len(retryResult.value.objetos[1].eventos) > 0
        /\ retryResult.value.objetos[1].mensagem = NoText) =>
          LET d == retryResult.value.objetos[1].eventos[1].descricao
              st == trackResult.value.status
              matching == {k \in DOMAIN ClassificationRules :
                              isSubstring(ClassificationRules[k][1], d)}
          IN  /\ matching = {}
                    => st = "Objeto em transferencia - por favor aguarde"
              /\ \A k \in matching :
                    (\A l \in matching : k <= l)
                       => st = ClassificationRules[k][2]
              /\ isSubstring("Objeto nao entregue - prazo de retirada encerrado", d)
                    => /\ st = "Objeto nao entregue - prazo de retirada encerrado"
                       /\ st # "Objeto nao entregue"
              /\ isSubstring("Objeto entregue ao destinatario", d)
                    => st = "Objeto entregue ao destinatario"
              /\ isSubstring("Objeto em correcao de rota", d)
                    => /\ st = "Objeto em correcao de rota"
                       /\ st # "Objeto em transferencia - por favor aguarde"

C11_Witness ==
    /\ trackPc = "resolved"
    /\ retryPc = "resolved"
    /\ Len(trackResult.value.events) = 3
    /\ trackResult.value.events[1].description
          = "Objeto nao entregue - prazo de retirada encerrado - sera devolvido"
    /\ trackResult.value.events[2].description
          = "Objeto em transferencia - por favor aguarde"
    /\ trackResult.value.status
          = "Objeto nao entregue - prazo de retirada encerrado"

(***************************************************************************)
(* C12: a call of getValidToken returns the cached token, with no upstream *)
(* call and no acquisition started or awaited, iff the cache holds a token *)
(* whose expiry instant is strictly later than now; with no token cached,  *)
(* or one at or past its expiry instant, the call starts a new acquisition *)
(* or awaits the one in flight, and is not handed the cached token.        *)
(***************************************************************************)
C12_CacheHitIffUnexpired ==
    [][ \A c \in Callers :
          (callerPc[c] = "idle" /\ callerPc'[c] # "idle") =>
             LET unexpired == /\ ~tokenCache.isNull
                              /\ tokenCache.expiresAt > now
             IN  /\ unexpired =>
                       /\ callerPc'[c] = "returned"
                       /\ got'[c] = Ok([token |-> tokenCache.token])
                       /\ awaited'[c] = 0
                       /\ acquisitions' = acquisitions
                       /\ tokenPromise' = tokenPromise
                 /\ ~unexpired =>
                       /\ callerPc'[c] = "awaiting"
                       /\ got'[c] = got[c]
                       /\ awaited'[c] \in 1..Len(acquisitions')
                       /\ acquisitions'[awaited'[c]].outer = "pending"
                       /\ \/ /\ tokenPromise # 0
                             /\ awaited'[c] = tokenPromise
                             /\ acquisitions' = acquisitions
                          \/ /\ tokenPromise = 0
                             /\ Len(acquisitions') = Len(acquisitions) + 1
                             /\ awaited'[c] = Len(acquisitions')
                             /\ acquisitions'[awaited'[c]].requests = 1 ]_vars

(* A call served from the cache, and a later call made at the very instant *)
(* the cached token expires, which started the second acquisition.         *)
C12_Witness ==
    /\ \E c \in Callers :
          /\ callerPc[c] = "returned"
          /\ ~missAtStart[c]
          /\ awaited[c] = 0
          /\ got[c] = Ok([token |-> 1])
    /\ ~tokenCache.isNull
    /\ tokenCache.token = 1
    /\ tokenCache.expiresAt = now
    /\ Len(acquisitions) = 2
    /\ acquisitions[2].inner = "pending"
    /\ \E c \in Callers :
          /\ callerPc[c] = "awaiting"
          /\ missAtStart[c]
          /\ awaited[c] = 2

(***************************************************************************)
(* C13: a failed acquisition (credentials not configured, a non-2xx answer *)
(* of the authentication endpoint, or an answer without a token) leaves    *)
(* the cache as it was and stores no token; every caller that awaited it   *)
(* receives its failure; once its promise has settled the in-flight marker *)
(* no longer points at it; and the next getValidToken call made after that *)
(* starts a new acquisition instead of being handed the failed one.        *)
(***************************************************************************)
C13_FailedAcquisition ==
    [][ /\ \A id \in 1..Len(acquisitions') :
             acquisitions'[id].inner = "rejected" =>
                /\ ~acquisitions'[id].outcome.ok
                /\ tokenCache'.isNull \/ tokenCache'.token # id
                /\ (id > Len(acquisitions) \/ acquisitions[id].inner = "pending")
                      => tokenCache' = tokenCache
                /\ acquisitions'[id].outer = "rejected" => tokenPromise' # id
                /\ \A c \in Callers :
                      (callerPc'[c] = "returned" /\ awaited'[c] = id)
                         => got'[c] = acquisitions'[id].outcome
        /\ \A c \in Callers :
             (/\ callerPc[c] = "idle" /\ callerPc'[c] # "idle"
              /\ Len(acquisitions) > 0
              /\ acquisitions[Len(acquisitions)].outer = "rejected")
                => /\ Len(acquisitions') = Len(acquisitions) + 1
                   /\ awaited'[c] = Len(acquisitions')
                   /\ acquisitions'[Len(acquisitions')].startedBy = c
                   /\ tokenPromise' = Len(acquisitions') ]_vars

(* Two callers shared the failed request of the first acquisition; a third *)
(* call made afterwards started the second.                                *)
C13_Witness ==
    /\ credentials
    /\ Len(acquisitions) = 2
    /\ acquisitions[1].outer = "rejected"
    /\ acquisitions[1].requests = 1
    /\ tokenCache.isNull
    /\ tokenPromise = 2
    /\ Cardinality({c \in Callers : /\ callerPc[c] = "returned"
                                     /\ awaited[c] = 1
                                     /\ ~got[c].ok}) = 2
    /\ \E c \in Callers : callerPc[c] = "awaiting" /\ awaited[c] = 2

C13_WitnessUnconfigured ==
    /\ ~credentials
    /\ Len(acquisitions) = 2
    /\ acquisitions[1].outer = "rejected"
    /\ acquisitions[1].requests = 0
    /\ tokenCache.isNull
    /\ \E c \in Callers :
          /\ callerPc[c] = "returned"
          /\ awaited[c] = 1
          /\ got[c] = Fail(PlainError("Credenciais dos Correios nao configuradas"))

(***************************************************************************)
(* C14 as stated: a failure of getValidToken inside a lookup is PERMANENT  *)
(* and ends the lookup at that attempt: the operation has been invoked     *)
(* once, nothing is retried and the run is over.                           *)
(***************************************************************************)
IsAcquisitionFailure(e) ==
    \/ e = PlainError("Falha na autenticacao: 401 Unauthorized")
    \/ e.originalError = PlainError("Falha na autenticacao: 401 Unauthorized")

C14_AcquisitionFailureIsFinal ==
    \A k \in 1..Len(fnErrors) :
       IsAcquisitionFailure(fnErrors[k]) =>
          /\ IsPermanentThrown(fnErrors[k])
          /\ k = 1
          /\ fnCalls = 1
          /\ retryPc = "rejected"

(***************************************************************************)
(* What the code does instead: the Error thrown by getValidToken is caught *)
(* in fetchTrackingData and rethrown as a TEMPORARY network error, so the  *)
(* lookup is retried; when the acquisition fails on every attempt the      *)
(* operation (and with it getValidToken) has run three times and           *)
(* trackCorreios rejects with the TEMPORARY error.                         *)
(***************************************************************************)
C14_AcquisitionFailureRetried ==
    /\ \A k \in 1..Len(fnErrors) :
          IsAcquisitionFailure(fnErrors[k]) =>
             /\ IsTemporaryThrown(fnErrors[k])
             /\ (k < 3 /\ k = Len(fnErrors)) => retryPc # "rejected"
    /\ (/\ trackPc \in {"resolved", "rejected"}
        /\ retryPc = "rejected"
        /\ Len(fnErrors) > 0
        /\ \A k \in 1..Len(fnErrors) : IsAcquisitionFailure(fnErrors[k]))
          => /\ fnCalls = 3
             /\ trackPc = "rejected"
             /\ IsTemporaryThrown(trackResult.error)

C14_ThreeAcquisitionFailures ==
    /\ trackPc = "rejected"
    /\ fnCalls = 3
    /\ \A k \in 1..3 : IsAcquisitionFailure(fnErrors[k])

(***************************************************************************)
(* C15: in a pass, trackCorreios is called once for every record that      *)
(* findPendingTrackings returned, in the order returned: the k-th call is  *)
(* for the k-th record; a record is taken in hand only when every record   *)
(* before it has ended (updated, unchanged, skipped or failed, with or     *)
(* without a pause); and the loop ends only when every record has ended.   *)
(***************************************************************************)
RecordEnded(entry) ==
    /\ entry.lookup # "pending"
    /\ entry.outcome \in {"updated", "unchanged", "skipped", "failed"}

C15_EveryRecordAttemptedOnce ==
    \A j \in Passes :
       /\ Len(journal[j]) <= Len(trackings[j])
       /\ \A k \in 1..Len(journal[j]) :
             /\ journal[j][k].tracking = trackings[j][k]
             /\ k < Len(journal[j]) => RecordEnded(journal[j][k])
       /\ \A k, l \in 1..Len(trackings[j]) :
             k # l => trackings[j][k].trackingCode # trackings[j][l].trackingCode
       /\ jobPc[j] \in {"lookup", "ucFind", "ucUpdate", "publishing", "pausing"}
             => /\ Len(journal[j]) = cursor[j]
                /\ (jobPc[j] # "pausing") = (journal[j][cursor[j]].outcome = "pending")
       /\ jobPc[j] = "done"
             => /\ Len(journal[j]) = Len(trackings[j])
                /\ \A k \in 1..Len(journal[j]) : RecordEnded(journal[j][k])

(* A pass whose first record failed and was followed by a pause, and whose *)
(* second record was then looked up, skipped, and the loop ended.          *)
C15_Witness ==
    \E j \in Passes :
       /\ jobPc[j] = "done"
       /\ Len(trackings[j]) = 2
       /\ journal[j][1].outcome = "failed"
       /\ journal[j][1].waitTime > 0
       /\ journal[j][2].outcome = "skipped"

(***************************************************************************)
(* C16 as stated: whenever the batch fetch of a pass fails (the table has  *)
(* pending rows and the pass got none of them), the pass ends in the outer *)
(* catch block.                                                            *)
(***************************************************************************)
C16_FetchFailureIsCritical ==
    [][ \A j \in Passes :
          (/\ jobPc[j] = "fetching"
           /\ jobPc'[j] # "fetching"
           /\ Len(findPendingTrackings(table, TRUE)) > 0
           /\ Len(trackings'[j]) = 0)
             => jobPc'[j] = "critical" ]_vars

(***************************************************************************)
(* C16: processTrackings never rejects.  A pass is always at one of its    *)
(* awaits or has returned; while it is at an await the step that follows   *)
(* is possible; a pass ended by the outer catch block has processed no     *)
(* record and counted nothing; no record is processed beyond the fetched   *)
(* list (none when the fetch gave none); and a pass that returned after    *)
(* the loop reports counts that agree with what happened to its records:   *)
(* attempted = fetched, succeeded = lookups resolved, permanently failed = *)
(* failed, skipped = lookups rejected as temporary, updated = updates      *)
(* completed.                                                              *)
(***************************************************************************)
CanGoOn(j) ==
    CASE jobPc[j] = "idle" -> ENABLED ProcessTrackings(j)
      [] jobPc[j] = "fetching" ->
            /\ \A dbOk \in BOOLEAN : ENABLED FindPendingReturns(j, dbOk)
            /\ ENABLED FindPendingRejects(j)
      [] jobPc[j] = "lookup" ->
            \A ending \in OverlapEndings : ENABLED LookupSettles(j, ending)
      [] jobPc[j] = "ucFind" ->
            \A dbOk \in BOOLEAN : ENABLED UcFindReturns(j, dbOk)
      [] jobPc[j] = "ucUpdate" ->
            \A dbOk \in BOOLEAN : ENABLED UcUpdateReturns(j, dbOk)
      [] jobPc[j] = "publishing" -> ENABLED PublishSettles(j)
      [] jobPc[j] = "pausing" -> ENABLED PauseEnds(j)
      [] OTHER -> FALSE

CountOf(j, outcomes) ==
    Cardinality({k \in 1..Len(journal[j]) : journal[j][k].outcome \in outcomes})

C16_NeverRejects ==
    \A j \in Passes :
       /\ jobPc[j] \in {"idle", "fetching", "lookup", "ucFind", "ucUpdate",
                        "publishing", "pausing", "done", "critical"}
       /\ jobPc[j] \notin {"done", "critical"} => CanGoOn(j)
       /\ Len(journal[j]) <= Len(trackings[j])
       /\ jobPc[j] = "critical"
             => /\ journal[j] = <<>>
                /\ successCount[j] = 0 /\ errorCount[j] = 0
                /\ skippedCount[j] = 0 /\ updatedCount[j] = 0
       /\ jobPc[j] = "done"
             => /\ Len(journal[j]) = Len(trackings[j])
                /\ successCount[j] =
                      Cardinality({k \in 1..Len(journal[j]) :
                                      journal[j][k].lookup = "resolved"})
                /\ errorCount[j] = CountOf(j, {"failed"})
                /\ skippedCount[j] = CountOf(j, {"skipped"})
                /\ updatedCount[j] = CountOf(j, {"updated"})
                /\ CountOf(j, {"updated", "unchanged", "skipped", "failed"})
                      = Len(trackings[j])

(* One pass ended by the outer catch block while the other reported after  *)
(* a failed record and a skipped one.                                      *)
C16_Witness ==
    \E i, j \in Passes :
       /\ jobPc[i] = "critical"
       /\ jobPc[j] = "done"
       /\ Len(trackings[j]) = 2
       /\ errorCount[j] = 1 /\ skippedCount[j] = 1 /\ successCount[j] = 1

(***************************************************************************)
(* C17 as stated: while a pass is in its loop, a step taken by the other   *)
(* pass leaves the consecutive-failure count unchanged: the count is       *)
(* neither reset nor incremented by the other pass.                        *)
(***************************************************************************)
InLoop(j) ==
    jobPc[j] \in {"lookup", "ucFind", "ucUpdate", "publishing", "pausing"}

StepOfAnother(j) ==
    /\ jobPc'[j] = jobPc[j]
    /\ cursor'[j] = cursor[j]
    /\ journal'[j] = journal[j]

C17_CounterOwnedByPass ==
    [][ \A j \in JobTypes :
          (InLoop(j) /\ StepOfAnother(j))
             => consecutiveFailures' = consecutiveFailures ]_vars

(* The states the interference leads to: the counter of a pass in its loop *)
(* differs from the failures that pass has had since its last resolved     *)
(* lookup; with three passes, a pass pauses on its first failure.          *)
OwnFailures(j) ==
    Cardinality({k \in 1..Len(journal[j]) :
                    /\ journal[j][k].outcome = "failed"
                    /\ \A l \in (k + 1)..Len(journal[j]) :
                          journal[j][l].lookup # "resolved"})

C17_CounterOffByOthers ==
    \E j \in JobTypes :
       /\ jobPc[j] = "lookup"
       /\ cursor[j] = 2
       /\ OwnFailures(j) = 1
       /\ consecutiveFailures = 0

C17_PausedOnFirstFailure ==
    \E j \in Passes :
       /\ jobPc[j] = "pausing"
       /\ OwnFailures(j) = 1
       /\ consecutiveFailures = MAX_CONSECUTIVE_FAILURES

(***************************************************************************)
(* C18 as stated: when the two overlapping passes process the same record  *)
(* and their lookups resolve with the same carrier history, publish is     *)
(* called at most once for that record between the two passes.             *)
(***************************************************************************)
SameRecordSameResult(i, k, j, l) ==
    /\ journal[i][k].tracking.trackingCode = journal[j][l].tracking.trackingCode
    /\ journal[i][k].lookup = "resolved"
    /\ journal[j][l].lookup = "resolved"
    /\ journal[i][k].answer.ok
    /\ journal[i][k].answer = journal[j][l].answer
    /\ journal[i][k].result = journal[j][l].result

C18_PublishedOnce ==
    \A i, j \in JobTypes :
       \A k \in 1..Len(journal[i]), l \in 1..Len(journal[j]) :
          (i # j /\ SameRecordSameResult(i, k, j, l))
             => journal[i][k].publishCalls + journal[j][l].publishCalls <= 1

(* The state the overlap leads to: both passes have called publish, and    *)
(* publish has called sendTrackingEmail, for the same record and result;   *)
(* the row was written twice with the same status and events.              *)
C18_NotifiedTwice ==
    \E k \in 1..Len(journal["NORMAL"]), l \in 1..Len(journal["PICO-EXTRA"]) :
       /\ SameRecordSameResult("NORMAL", k, "PICO-EXTRA", l)
       /\ journal["NORMAL"][k].outcome = "updated"
       /\ journal["PICO-EXTRA"][l].outcome = "updated"
       /\ journal["NORMAL"][k].sendCalls = 1
       /\ journal["PICO-EXTRA"][l].sendCalls = 1

(***************************************************************************)
(* C19 as stated: when the carrier's answer for a record is the same on    *)
(* two consecutive passes and the first pass applied it, the second pass   *)
(* calls neither updateStatus nor publish for that record; the answer may  *)
(* be a history or a permanent failure of the lookup.                      *)
(***************************************************************************)
SameAnswerApplied(k, l) ==
    /\ journal["NORMAL"][k].tracking.trackingCode
          = journal["PICO-EXTRA"][l].tracking.trackingCode
    /\ journal["NORMAL"][k].outcome \in {"updated", "unchanged"}
    /\ journal["PICO-EXTRA"][l].lookup # "pending"
    /\ journal["NORMAL"][k].answer = journal["PICO-EXTRA"][l].answer

C19_SecondPassIsNoOp ==
    \A k \in 1..Len(journal["NORMAL"]), l \in 1..Len(journal["PICO-EXTRA"]) :
       SameAnswerApplied(k, l)
          => /\ journal["PICO-EXTRA"][l].updateCalls = 0
             /\ journal["PICO-EXTRA"][l].publishCalls = 0

(* What does hold: the second pass is a no-op when the repeated answer is  *)
(* a history of the carrier.                                               *)
C19_SameHistoryIsNoOp ==
    \A k \in 1..Len(journal["NORMAL"]), l \in 1..Len(journal["PICO-EXTRA"]) :
       (SameAnswerApplied(k, l) /\ journal["NORMAL"][k].answer.ok)
          => /\ journal["PICO-EXTRA"][l].outcome \in {"pending", "unchanged"}
             /\ journal["PICO-EXTRA"][l].executeCalls = 0
             /\ journal["PICO-EXTRA"][l].updateCalls = 0
             /\ journal["PICO-EXTRA"][l].publishCalls = 0

(* The state the repeated permanent failure leads to: the second pass has  *)
(* written the row again and called publish again.                         *)
C19_ErrorReapplied ==
    \E k \in 1..Len(journal["NORMAL"]), l \in 1..Len(journal["PICO-EXTRA"]) :
       /\ SameAnswerApplied(k, l)
       /\ journal["NORMAL"][k].answer = NotFound404
       /\ journal["NORMAL"][k].result.status = "Erro na consulta"
       /\ journal["PICO-EXTRA"][l].result.status = "Erro na consulta"
       /\ journal["PICO-EXTRA"][l].tracking.currentStatus = "Erro na consulta"
       /\ journal["PICO-EXTRA"][l].outcome = "updated"
       /\ journal["PICO-EXTRA"][l].publishCalls = 1

(***************************************************************************)
(* C20 as stated: what findPendingTrackings resolves with is exactly the   *)
(* stored rows whose status is not terminal, terminal being the delivered, *)
(* cancelled and returned statuses (an expired label is counted with the   *)
(* cancelled ones).                                                        *)
(***************************************************************************)
TerminalStatuses ==
    {TrackingStatus.ENTREGUE, TrackingStatus.ENTREGUE_REMETENTE,
     TrackingStatus.ENTREGUE_CAIXA_INTELIGENTE, TrackingStatus.CANCELADO,
     TrackingStatus.ETIQUETA_CANCELADA, TrackingStatus.ETIQUETA_EXPIRADA,
     TrackingStatus.DEVOLVIDO}

Fetched(j) == {trackings[j][k].trackingCode : k \in 1..Len(trackings[j])}

C20_PendingIsNonTerminal ==
    jobPc["NORMAL"] \in {"lookup", "done"}
       => /\ Fetched("NORMAL") =
                {c \in Codes : /\ ~table[c].isNull
                               /\ table[c].currentStatus \notin TerminalStatuses}
          /\ Len(trackings["NORMAL"]) = Cardinality(Fetched("NORMAL"))

(* What does hold: no row with a terminal status is returned, no row is    *)
(* returned twice, and every row is returned whose status is neither       *)
(* terminal nor 'Objeto nao encontrado'.                                   *)
C20_PendingButNotFound ==
    jobPc["NORMAL"] \in {"lookup", "done"}
       => /\ Fetched("NORMAL") =
                {c \in Codes :
                    /\ ~table[c].isNull
                    /\ table[c].currentStatus \notin
                          TerminalStatuses \cup {"Objeto nao encontrado"}}
          /\ Len(trackings["NORMAL"]) = Cardinality(Fetched("NORMAL"))

(* The state it leads to: a pass stored 'Objeto nao encontrado' for a      *)
(* record the carrier did not know yet, and the next pass, whose fetch was *)
(* served, was not given the record.                                       *)
C20_NotFoundNeverPolledAgain ==
    \E k \in 1..Len(journal["NORMAL"]) :
       LET code == journal["NORMAL"][k].tracking.trackingCode
       IN  /\ journal["NORMAL"][k].answer = NotPostedYet
           /\ journal["NORMAL"][k].outcome = "updated"
           /\ table[code].currentStatus = "Objeto nao encontrado"
           /\ jobPc["PICO-EXTRA"] = "done"
           /\ Len(trackings["PICO-EXTRA"]) > 0
           /\ code \notin Fetched("PICO-EXTRA")

(***************************************************************************)
(* C25: a run of retryWithBackoff whose operation fails with retryable     *)
(* errors (not a PERMANENT ClassifiedError; errors that are no             *)
(* ClassifiedError included) on attempts 1..k-1 and succeeds on attempt    *)
(* k <= maxAttempts resolves with that result after exactly k invocations; *)
(* onRetry has been called k-1 times, with 1, ..., k-1 in order, each      *)
(* call followed by its sleep; and a retryable failure before the last     *)
(* attempt never ends the run.                                             *)
(***************************************************************************)
C25_SuccessAfterRetries ==
    /\ retryPc = "resolved"
          => /\ retryResult.ok
             /\ fnCalls = Len(fnErrors) + 1
             /\ fnCalls <= options.maxAttempts
             /\ \A n \in 1..Len(fnErrors) : ~IsPermanentThrown(fnErrors[n])
             /\ Len(retryLog) = 2 * (fnCalls - 1)
             /\ \A n \in 1..(fnCalls - 1) :
                   /\ retryLog[2 * n - 1] = [ev |-> "onRetry", n |-> n]
                   /\ retryLog[2 * n].ev = "sleep"
    /\ retryPc = "rejected"
          => \/ IsPermanentThrown(fnErrors[Len(fnErrors)])
             \/ Len(fnErrors) = options.maxAttempts

(* Success on the third attempt after an error that is not an Error and a  *)
(* plain Error.                                                            *)
C25_Witness ==
    /\ retryPc = "resolved"
    /\ fnCalls = 3
    /\ options.maxAttempts = 4
    /\ fnErrors = <<NonError("thrown string"), PlainError("Error 1")>>
    /\ retryResult = Ok([v |-> "success"])

(***************************************************************************)
(* C26: the delay slept after failed attempt n (n < maxAttempts) is        *)
(* min(initialDelay * backoffMultiplier^(n-1), maxDelay), here computed    *)
(* step by step: the first is min(initialDelay, maxDelay) and each next    *)
(* one is min(previous * backoffMultiplier, maxDelay); a delay is larger   *)
(* than the one before unless that one was maxDelay already; no delay      *)
(* exceeds maxDelay; there is one sleep per failed attempt but the last,   *)
(* and none once the run has ended after maxAttempts failures.             *)
(***************************************************************************)
Sleeps == [n \in 1..(Len(retryLog) \div 2) |-> retryLog[2 * n].n]

C26_BackoffDelays ==
    /\ Len(Sleeps) <= options.maxAttempts - 1
    /\ retryPc = "sleeping" => Len(Sleeps) = Len(fnErrors)
    /\ (retryPc = "rejected" /\ Len(fnErrors) = options.maxAttempts)
          => Len(Sleeps) = options.maxAttempts - 1
    /\ \A n \in 1..Len(Sleeps) :
          /\ Sleeps[n] <= options.maxDelay
          /\ n = 1 => Sleeps[n] = IF options.initialDelay < options.maxDelay
                                  THEN options.initialDelay
                                  ELSE options.maxDelay
          /\ n > 1 =>
                /\ Sleeps[n] =
                      IF Sleeps[n - 1] * options.backoffMultiplier
                            < options.maxDelay
                      THEN Sleeps[n - 1] * options.backoffMultiplier
                      ELSE options.maxDelay
                /\ Sleeps[n] >= Sleeps[n - 1]
                /\ Sleeps[n - 1] < options.maxDelay => Sleeps[n] > Sleeps[n - 1]

(* Four failed attempts with initialDelay 10, multiplier 2 and maxDelay    *)
(* 25: the sleeps are 10, 20 and 25.                                       *)
C26_Witness ==
    /\ retryPc = "rejected"
    /\ Len(fnErrors) = 4
    /\ Sleeps = <<10, 20, 25>>

(***************************************************************************)
(* C28: hasNewEvents(old, new) is false whenever new is a permutation of   *)
(* old (the same events, each as many times, in any order); in particular  *)
(* hasNewEvents(e, e) is false for every list e, the empty one included.   *)
(***************************************************************************)
Occurrences(events, event) ==
    Cardinality({i \in 1..Len(events) : events[i] = event})

IsPermutation(old, new) ==
    /\ Len(old) = Len(new)
    /\ \A i \in 1..Len(old) :
          Occurrences(old, old[i]) = Occurrences(new, old[i])

C28_OrderIndependent ==
    comparePc = "done"
       => /\ IsPermutation(oldEvents, newEvents) => returned = FALSE
          /\ ~hasNewEvents(oldEvents, oldEvents)
          /\ ~hasNewEvents(newEvents, newEvents)
          /\ ~hasNewEvents(<<>>, <<>>)

C28_Witness ==
    /\ comparePc = "done"
    /\ oldEvents = <<EvPostado, EvTransferencia>>
    /\ newEvents = <<EvTransferencia, EvPostado>>
    /\ returned = FALSE


(***************************************************************************)
(* C23: EmailEventPublisher.publish never rejects.  Whatever               *)
(* sendTrackingEmail does (mail sent, template missing or inactive, a      *)
(* throw of getTemplate or of the SMTP transport), the awaited call has a  *)
(* continuation in publish and that continuation resolves publish; a       *)
(* publish that returned early resolved without calling sendTrackingEmail. *)
(***************************************************************************)
C23_PublishNeverRejects ==
    /\ publishPc \in {"idle", "sending", "resolved"}
    /\ publishPc = "sending" =>
          /\ sendResult.outcome = "none"
          /\ \A outcome \in SendOutcomes : ENABLED PublishSendSettles(outcome)
    /\ sendResult.outcome # "none" =>
          /\ publishPc = "resolved"
          /\ sendCalls = 1
          /\ mailsSent = (IF sendResult.outcome = "sent" THEN 1 ELSE 0)
    /\ (publishPc = "resolved" /\ sendResult.outcome = "none") => sendCalls = 0

C23_Witness ==
    /\ publishPc = "resolved"
    /\ publishEvent.deliveryChannel = "delivery"
    /\ publishEvent.newStatus = "Objeto entregue ao destinatario"
    /\ sendCalls = 1
    /\ sendResult = [templateName |-> "Objeto entregue", outcome |-> "throws"]
    /\ mailsSent = 0

C23_WitnessTemplateMissing ==
    /\ publishPc = "resolved"
    /\ sendCalls = 1
    /\ sendResult.outcome = "templateInactive"
    /\ mailsSent = 0

(***************************************************************************)
(* C24: no mail is sent for a change to 'Objeto saiu para entrega ao       *)
(* remetente', 'Objeto entregue ao remetente', 'Cancelado', 'Devolvido' or *)
(* 'Etiqueta cancelada pelo emissor', and a change to any other status on  *)
(* the delivery channel, with the template active and the transport        *)
(* working, sends one.                                                     *)
(***************************************************************************)
C24_NoMailStatuses ==
    {"Objeto saiu para entrega ao remetente",
     "Objeto entregue ao remetente",
     "Cancelado",
     "Devolvido",
     "Etiqueta cancelada pelo emissor"}

C24_OnlySenderStatusesAreSilent ==
    publishPc = "resolved" =>
       /\ publishEvent.newStatus \in C24_NoMailStatuses => mailsSent = 0
       /\ (/\ publishEvent.newStatus \notin C24_NoMailStatuses
           /\ publishEvent.deliveryChannel = "delivery"
           /\ sendResult.outcome \notin {"templateInactive", "throws"})
             => mailsSent = 1

(* A cancelled order is announced with the template of a posted object.    *)
C24_CancelledMailedAsPosted ==
    /\ publishPc = "resolved"
    /\ publishEvent.newStatus = "Cancelado"
    /\ sendResult = [templateName |-> "Postado", outcome |-> "sent"]
    /\ mailsSent = 1

(* A return to the sender is announced as an object out for delivery.      *)
C24_ReturnMailedAsOutForDelivery ==
    /\ publishPc = "resolved"
    /\ publishEvent.newStatus = "Objeto saiu para entrega ao remetente"
    /\ sendResult = [templateName |-> "Saiu para entrega", outcome |-> "sent"]
    /\ mailsSent = 1

(* A status outside the five that sends nothing on the delivery channel.   *)
C24_ExpiredLabelSilent ==
    /\ publishPc = "resolved"
    /\ publishEvent = [deliveryChannel |-> "delivery",
                       newStatus |-> "Etiqueta expirada"]
    /\ sendCalls = 0


(***************************************************************************)
(* C29: a lookup that the carrier answered never fails in normalization:   *)
(* trackCorreios resolves.  When the first object of the answer carries a  *)
(* message, it resolves with the status 'Objeto nao encontrado' and        *)
(* exactly one synthesized event (the message as description, status 'Nao  *)
(* encontrado', location 'Correios'), whatever events the object has; when *)
(* the object has no message and zero events, it resolves with the status  *)
(* 'Etiqueta emitida', an empty event list and the object's expected date. *)
(***************************************************************************)
Answered == trackPc \in {"resolved", "rejected"} /\ retryResult.ok

C29_NormalizationNeverFails ==
    Answered =>
       /\ trackPc = "resolved"
       /\ trackResult.ok
       /\ Len(retryResult.value.objetos) > 0 =>
             LET objeto == retryResult.value.objetos[1]
                 response == trackResult.value
             IN  /\ objeto.mensagem # NoText =>
                       /\ response.status = "Objeto nao encontrado"
                       /\ Len(response.events) = 1
                       /\ response.events[1].description = objeto.mensagem
                       /\ response.events[1].status = "Nao encontrado"
                       /\ response.events[1].location = "Correios"
                       /\ response.dtPrevista = NoText
                 /\ (objeto.mensagem = NoText /\ objeto.eventos = <<>>) =>
                       /\ response.status = "Etiqueta emitida"
                       /\ response.events = <<>>
                       /\ response.dtPrevista = objeto.dtPrevista

C29_Witness ==
    /\ Answered
    /\ retryResult.value.objetos =
          << Objeto("SRO-020: Objeto nao encontrado na base de dados dos Correios.",
                    <<>>, NoText) >>
    /\ trackPc = "resolved"
    /\ trackResult.value.status = "Objeto nao encontrado"
    /\ Len(trackResult.value.events) = 1

C29_WitnessNoEvents ==
    /\ Answered
    /\ retryResult.value.objetos = << Objeto(NoText, <<>>, "2024-01-10") >>
    /\ trackPc = "resolved"
    /\ trackResult.value =
          CorreiosResponse("Etiqueta emitida", <<>>, "2024-01-10")

(***************************************************************************)
(* C30: when no pattern of the classification chain occurs in the          *)
(* description of the most recent event, trackCorreios resolves with the   *)
(* status 'Objeto em transferencia - por favor aguarde' and the whole      *)
(* event list, each event mapped from the carrier's, in the carrier's      *)
(* order, with the object's expected date.                                 *)
(***************************************************************************)
Unmatched(descricao) == \A k \in DOMAIN ClassificationRules :
                           ~isSubstring(ClassificationRules[k][1], descricao)

C30_UnmatchedIsInTransit ==
    (/\ Answered
     /\ Len(retryResult.value.objetos) > 0
     /\ retryResult.value.objetos[1].mensagem = NoText
     /\ retryResult.value.objetos[1].eventos # <<>>
     /\ Unmatched(retryResult.value.objetos[1].eventos[1].descricao))
    => LET objeto == retryResult.value.objetos[1]
           response == trackResult.value
       IN  /\ trackPc = "resolved"
           /\ trackResult.ok
           /\ response.status = "Objeto em transferencia - por favor aguarde"
           /\ Len(response.events) = Len(objeto.eventos)
           /\ \A i \in 1..Len(objeto.eventos) :
                 /\ response.events[i] = mapEvento(objeto.eventos[i])
                 /\ response.events[i].description = objeto.eventos[i].descricao
                 /\ response.events[i].date = objeto.eventos[i].dtHrCriado
           /\ response.dtPrevista = objeto.dtPrevista

C30_Witness ==
    /\ Answered
    /\ Len(retryResult.value.objetos) = 1
    /\ retryResult.value.objetos[1].mensagem = NoText
    /\ Len(retryResult.value.objetos[1].eventos) = 3
    /\ retryResult.value.objetos[1].eventos[1].descricao =
          "Objeto recebido pelos Correios do Brasil"
    /\ trackPc = "resolved"
    /\ trackResult.value.status = "Objeto em transferencia - por favor aguarde"
    /\ Len(trackResult.value.events) = 3
    /\ trackResult.value.events[3].description = "Objeto postado"


(***************************************************************************)
(* C22: every status trackCorreios resolves with is a value of the         *)
(* TrackingStatus enum (the carrier statuses and 'Erro na consulta').      *)
(***************************************************************************)
C22_StatusInEnumeration ==
    trackPc = "resolved" => trackResult.value.status \in TrackingStatusValues

(* The lookup of an object the carrier does not know resolves with a       *)
(* status that is no value of the enum.                                    *)
C22_NotFoundReturned ==
    /\ Answered
    /\ Len(retryResult.value.objetos) > 0
    /\ retryResult.value.objetos[1].mensagem # NoText
    /\ trackPc = "resolved"
    /\ trackResult.value.status = "Objeto nao encontrado"
    /\ trackResult.value.status \notin TrackingStatusValues

(* The job stores that status as the current status of the record.         *)
C22_NotFoundPersisted ==
    \E j \in JobTypes : \E n \in 1..Len(journal[j]) :
       /\ journal[j][n].outcome = "updated"
       /\ journal[j][n].result.status = "Objeto nao encontrado"
       /\ table[journal[j][n].tracking.trackingCode].currentStatus
             = "Objeto nao encontrado"
       /\ "Objeto nao encontrado" \notin TrackingStatusValues


(***************************************************************************)
(* C21: a lookup that ended in a permanent failure resolves with the       *)
(* status 'Erro na consulta', which the job writes to the record; the      *)
(* record stays pending, so the next pass, when the store serves its       *)
(* fetch, fetches the record and looks it up again; and when that lookup   *)
(* is answered by the carrier, the update is attempted and, once written,  *)
(* the record holds the status and events of that answer in place of the   *)
(* error.  The passes are "NORMAL" and, after it returned, "PICO-EXTRA".   *)
(***************************************************************************)
PermanentFailure(answer) ==
    /\ ~answer.ok
    /\ answer.error.cls = "ClassifiedError"
    /\ answer.error.type = PERMANENT

C21_ErrorStatusIsRepolled ==
    /\ \A j \in JobTypes : \A n \in 1..Len(journal[j]) :
          LET entry == journal[j][n]
          IN  (entry.lookup # "pending" /\ PermanentFailure(entry.answer)) =>
                 /\ entry.lookup = "resolved"
                 /\ entry.result.status = "Erro na consulta"
                 /\ Len(entry.result.events) = 1
                 /\ entry.tracking.currentStatus # "Erro na consulta"
                       => entry.executeCalls = 1
    /\ \A n \in 1..Len(journal["NORMAL"]) :
          LET entry == journal["NORMAL"][n]
              code == entry.tracking.trackingCode
          IN  (entry.outcome = "updated" /\ PermanentFailure(entry.answer)) =>
                 /\ jobPc["PICO-EXTRA"] \in {"idle", "fetching"} =>
                       /\ table[code].currentStatus = "Erro na consulta"
                       /\ table[code].events = entry.result.events
                       /\ table[code].currentStatus \in pendingStatuses
                 /\ Len(trackings["PICO-EXTRA"]) > 0 =>
                       code \in Fetched("PICO-EXTRA")
                 /\ (jobPc["PICO-EXTRA"] = "done"
                       /\ Len(trackings["PICO-EXTRA"]) > 0) =>
                       \E l \in 1..Len(journal["PICO-EXTRA"]) :
                          /\ journal["PICO-EXTRA"][l].tracking.trackingCode = code
                          /\ journal["PICO-EXTRA"][l].tracking.currentStatus
                                = "Erro na consulta"
                          /\ journal["PICO-EXTRA"][l].lookup # "pending"
    /\ \A l \in 1..Len(journal["PICO-EXTRA"]) :
          LET entry == journal["PICO-EXTRA"][l]
              code == entry.tracking.trackingCode
          IN  (/\ entry.tracking.currentStatus = "Erro na consulta"
               /\ entry.lookup = "resolved"
               /\ entry.answer.ok) =>
                 /\ entry.executeCalls = 1
                 /\ entry.result.status # "Erro na consulta"
                 /\ entry.outcome = "updated" =>
                       /\ table[code].currentStatus = entry.result.status
                       /\ table[code].events = entry.result.events

C21_Witness ==
    \E k \in 1..Len(journal["NORMAL"]), l \in 1..Len(journal["PICO-EXTRA"]) :
       LET first == journal["NORMAL"][k]
           second == journal["PICO-EXTRA"][l]
           code == first.tracking.trackingCode
       IN  /\ first.answer = NotFound404
           /\ first.outcome = "updated"
           /\ second.tracking.trackingCode = code
           /\ second.tracking.currentStatus = "Erro na consulta"
           /\ second.answer = OutForDelivery
           /\ second.outcome = "updated"
           /\ table[code].currentStatus
                 = "Objeto saiu para entrega ao destinatario"
           /\ Len(table[code].events) = 2


(***************************************************************************)
(* C27: in the step in which a record fails without being skipped, the     *)
(* counter goes up by one, and the pass pauses iff the counter then stands *)
(* at 3 or more; the pause is of base wait * min(counter - 3 + 1, 5): one  *)
(* base wait of 60000 ms at 3, one more per further failure, 300000 ms     *)
(* from 7 on.  A pass that does not pause goes on to the next record.      *)
(***************************************************************************)
FailsNow(j) ==
    /\ jobPc[j] \in {"lookup", "ucFind", "ucUpdate"}
    /\ journal[j][cursor[j]].outcome = "pending"
    /\ journal'[j][cursor[j]].outcome = "failed"

C27_WaitByCounter ==
    [n \in 1..(MaxFailures + 1) |->
        IF n < 3 THEN 0
        ELSE IF n = 3 THEN 60000
        ELSE IF n = 4 THEN 120000
        ELSE IF n = 5 THEN 180000
        ELSE IF n = 6 THEN 240000
        ELSE 300000]

C27_PauseByCounter ==
    [][ \A j \in JobTypes :
          FailsNow(j) =>
             LET counter == consecutiveFailures'
                 overshoot == counter - 3 + 1
                 waitTime == journal'[j][cursor[j]].waitTime
             IN  /\ counter = consecutiveFailures + 1
                 /\ errorCount'[j] = errorCount[j] + 1
                 /\ jobPc'[j] = "pausing" <=> counter >= 3
                 /\ counter >= 3 =>
                       /\ waitTime = 60000 * (IF overshoot < 5 THEN overshoot
                                              ELSE 5)
                       /\ cursor'[j] = cursor[j]
                 /\ counter < 3 =>
                       /\ waitTime = 0
                       /\ cursor'[j] = cursor[j] + 1
                 /\ waitTime = C27_WaitByCounter[counter] ]_vars

C27_Witness ==
    /\ jobPc["NORMAL"] = "pausing"
    /\ consecutiveFailures = 8
    /\ journal["NORMAL"][cursor["NORMAL"]].outcome = "failed"
    /\ journal["NORMAL"][cursor["NORMAL"]].waitTime = 300000

C27_WitnessThird ==
    /\ jobPc["NORMAL"] = "pausing"
    /\ consecutiveFailures = 3
    /\ journal["NORMAL"][cursor["NORMAL"]].waitTime = 60000

C27_WitnessNoPause ==
    /\ jobPc["NORMAL"] = "lookup"
    /\ cursor["NORMAL"] = 2
    /\ consecutiveFailures = 2
    /\ journal["NORMAL"][1].outcome = "failed"
    /\ journal["NORMAL"][1].waitTime = 0


(***************************************************************************)
(* C38: every status the classification chain can give out (the status of  *)
(* each rule, and the default) is classified as itself when it is the      *)
(* description, so the status trackCorreios resolved with from the         *)
(* carrier's latest description is left as it is by a second               *)
(* classification.                                                         *)
(***************************************************************************)
ChainOutputs ==
    {ClassificationRules[k][2] : k \in DOMAIN ClassificationRules}
       \cup {DefaultStatus}

C38_FixedPoints ==
    (trackPc = "resolved" /\ retryResult.ok) =>
       LET descricao == retryResult.value.objetos[1].eventos[1].descricao
           status == trackResult.value.status
       IN  /\ status \in ChainOutputs
           /\ classifyStatus(status) = status
           /\ descricao \in ChainOutputs => status = descricao

C38_Witness ==
    /\ trackPc = "resolved"
    /\ retryResult.ok
    /\ retryResult.value.objetos[1].eventos[1].descricao
          = "Objeto nao entregue - endereco incorreto"
    /\ trackResult.value.status = "Objeto nao entregue - endereco incorreto"
    /\ classifyStatus(trackResult.value.status) = trackResult.value.status

C38_WitnessDefault ==
    /\ trackPc = "resolved"
    /\ retryResult.ok
    /\ retryResult.value.objetos[1].eventos[1].descricao
          = "Objeto recebido pelos Correios do Brasil"
    /\ trackResult.value.status = "Objeto em transferencia - por favor aguarde"
    /\ classifyStatus(trackResult.value.status) = trackResult.value.status


(***************************************************************************)
(* C31 as stated: execute, when findByTrackingCode gives no record,        *)
(* rejects without calling updateStatus or publish; for a record that was  *)
(* found it calls updateStatus exactly once and calls publish iff the      *)
(* requested status differs from the record as re-read, or the requested   *)
(* events are new relative to it.                                          *)
(***************************************************************************)
Reread(j) == currentTracking[j]

Differs(j) ==
    \/ Reread(j).currentStatus # trackingData[j].status
    \/ hasNewEvents(Reread(j).events, trackingData[j].events)

FindEnds(j) == jobPc[j] = "ucFind" /\ jobPc'[j] # "ucFind"

UpdateEnds(j) == jobPc[j] = "ucUpdate" /\ jobPc'[j] # "ucUpdate"

NotFoundRejects(j) ==
    (FindEnds(j) /\ jobPc'[j] # "ucUpdate") =>
       /\ journal'[j][cursor[j]].outcome = "failed"
       /\ journal'[j][cursor[j]].findCalls = 1
       /\ journal'[j][cursor[j]].updateCalls = 0
       /\ journal'[j][cursor[j]].publishCalls = 0
       /\ table' = table

C31_PublishIffChanged ==
    [][ \A j \in JobTypes :
          /\ NotFoundRejects(j)
          /\ (FindEnds(j) /\ jobPc'[j] = "ucUpdate") =>
                journal'[j][cursor[j]].updateCalls = 1
          /\ UpdateEnds(j) =>
                /\ journal'[j][cursor[j]].updateCalls = 1
                /\ journal'[j][cursor[j]].publishCalls = 1 <=> Differs(j) ]_vars

(***************************************************************************)
(* C31, amended: as above, but publish is called iff the record differs    *)
(* AND updateStatus resolved; when updateStatus rejects, execute rejects   *)
(* with the row as it was and without calling publish, so the change is    *)
(* neither stored nor announced.  updateStatus is called exactly once for  *)
(* a found record also when the record as re-read already holds the        *)
(* requested status and events.                                            *)
(***************************************************************************)
C31_PublishIffChangedAndStored ==
    [][ \A j \in JobTypes :
          /\ NotFoundRejects(j)
          /\ (FindEnds(j) /\ jobPc'[j] = "ucUpdate") =>
                journal'[j][cursor[j]].updateCalls = 1
          /\ UpdateEnds(j) =>
                LET entry == journal'[j][cursor[j]]
                    code == trackings[j][cursor[j]].trackingCode
                IN  /\ entry.updateCalls = 1
                    /\ entry.publishCalls \in {0, 1}
                    /\ entry.outcome = "failed" =>
                          /\ entry.publishCalls = 0
                          /\ table' = table
                    /\ entry.outcome # "failed" =>
                          /\ table'[code].currentStatus = trackingData[j].status
                          /\ table'[code].events = trackingData[j].events
                          /\ entry.publishCalls = 1 <=> Differs(j)
                          /\ jobPc'[j] = "publishing" <=> Differs(j) ]_vars

(* A record found to hold already what is requested (another pass wrote    *)
(* it): updateStatus called once, publish not called.                      *)
C31_Witness ==
    \E j \in JobTypes : \E n \in 1..Len(journal[j]) :
       /\ journal[j][n].outcome = "updated"
       /\ journal[j][n].findCalls = 1
       /\ journal[j][n].updateCalls = 1
       /\ journal[j][n].publishCalls = 0
       /\ journal[j][n].tracking.currentStatus # journal[j][n].result.status

C31_WitnessNotFound ==
    \E j \in JobTypes : \E n \in 1..Len(journal[j]) :
       /\ journal[j][n].outcome = "failed"
       /\ journal[j][n].findCalls = 1
       /\ journal[j][n].updateCalls = 0
       /\ journal[j][n].publishCalls = 0

(* updateStatus rejected for a record that differs: no publish.            *)
C31_WitnessUpdateRejected ==
    \E j \in JobTypes : \E n \in 1..Len(journal[j]) :
       /\ journal[j][n].outcome = "failed"
       /\ journal[j][n].updateCalls = 1
       /\ journal[j][n].publishCalls = 0
       /\ table[journal[j][n].tracking.trackingCode].currentStatus
             # journal[j][n].result.status


(***************************************************************************)
(* C32: with getValidToken and clearCache called in any order, at most one *)
(* acquisition has its authentication request outstanding at any time.     *)
(***************************************************************************)
InFlight == {id \in 1..Len(acquisitions) : acquisitions[id].inner = "pending"}

C32_OneInFlightWithClearCache == Cardinality(InFlight) <= 1

(* clearCache during an acquisition: the next caller starts a second one   *)
(* while the request of the first is outstanding.                          *)
C32_TwoInFlight ==
    /\ InFlight = {1, 2}
    /\ tokenPromise = 2
    /\ \E c, d \in Callers :
          /\ callerPc[c] = "awaiting" /\ awaited[c] = 1
          /\ callerPc[d] = "awaiting" /\ awaited[d] = 2

(* The .finally() of the first acquisition then erases the marker of the   *)
(* second, which is still in flight, so nothing holds back a third.        *)
C32_MarkerErasedByStaleFinally ==
    /\ Len(acquisitions) = 2
    /\ acquisitions[1].outer # "pending"
    /\ 2 \in InFlight
    /\ tokenPromise = 0

(* A token acquired before clearCache is cached after it.                  *)
C32_ClearedCacheRefilled ==
    /\ Len(acquisitions) = 1
    /\ acquisitions[1].inner = "fulfilled"
    /\ tokenPromise = 0
    /\ acquisitions[1].outer = "pending"
    /\ ~tokenCache.isNull


(***************************************************************************)
(* C36: the cached token changes only when an acquisition succeeds (to the *)
(* token acquired) or when clearCache is called (to nothing); the step in  *)
(* which an attempt of trackCorreios settles, whatever the carrier         *)
(* answered (401 and 403 included), and every other step of the retry      *)
(* loop leave the cache, the acquisition marker and the acquisitions as    *)
(* they were; so two attempts of one call send different tokens only if,   *)
(* at the start of an attempt in between or of the later one, no unexpired *)
(* token was cached.                                                       *)
(***************************************************************************)
AcquiredNow ==
    \E id \in 1..Len(acquisitions) :
       /\ acquisitions[id].inner = "pending"
       /\ acquisitions'[id].inner = "fulfilled"
       /\ tokenCache' = TokenData(id, now + TOKEN_EXPIRATION_MS)

ClearedNow ==
    /\ tokenCache' = Null
    /\ tokenPromise' = 0
    /\ acquisitions' = acquisitions
    /\ retryVars' = retryVars

TokenSent(n) == got[n].value.token

C36_CacheFrame ==
    [][ /\ tokenCache' # tokenCache => (AcquiredNow \/ ClearedNow)
        /\ (retryVars' # retryVars \/ trackVars' # trackVars) =>
              /\ tokenCache' = tokenCache
              /\ tokenPromise' = tokenPromise
              /\ acquisitions' = acquisitions
        /\ \A a, b \in Callers :
              (/\ a < b
               /\ b <= fnCalls
               /\ callerPc[a] = "returned" /\ got[a].ok
               /\ callerPc[b] = "returned" /\ got[b].ok
               /\ TokenSent(a) # TokenSent(b))
                 => \E m \in (a + 1)..b : missAtStart[m] ]_vars

(* Three attempts refused with 401, 403 and 401, all with the one token.   *)
C36_Witness ==
    /\ trackPc = "rejected"
    /\ fnCalls = 3
    /\ Len(fnErrors) = 3
    /\ fnErrors[1].message = "Erro ao consultar rastreamento: 401"
    /\ fnErrors[2].message = "Erro ao consultar rastreamento: 403"
    /\ fnErrors[3].message = "Erro ao consultar rastreamento: 401"
    /\ \A n \in 1..3 : got[n] = Ok([token |-> 1])
    /\ ~missAtStart[2]
    /\ ~missAtStart[3]
    /\ tokenCache = TokenData(1, TOKEN_EXPIRATION_MS)
    /\ Len(acquisitions) = 1

(* A later attempt with another token: the first had expired.              *)
C36_WitnessExpired ==
    /\ fnCalls = 2
    /\ callerPc[2] = "returned"
    /\ got[1] = Ok([token |-> 1])
    /\ got[2] = Ok([token |-> 2])
    /\ missAtStart[2]


(***************************************************************************)
(* C33: the step in which a lookup ends in a PERMANENT carrier failure is  *)
(* a resolved lookup for the job: the succeeded count goes up by one, the  *)
(* consecutive-failure counter is set to zero, the permanently-failed and  *)
(* skipped counts stay, and the synthesized 'Erro na consulta' status and  *)
(* event are compared with the record as any answer is (the update use     *)
(* case is called iff the status differs or an event is new).  The         *)
(* permanently-failed count of a pass and the consecutive-failure counter  *)
(* go up only, and together, in the step in which a call of the update use *)
(* case (its find or its update) fails for a record whose lookup resolved. *)
(***************************************************************************)
LookupEnds(j) ==
    /\ jobPc[j] = "lookup"
    /\ journal'[j][cursor[j]].lookup # "pending"

C33_PermanentFailureIsResolvedLookup ==
    [][ \A j \in JobTypes :
          /\ (LookupEnds(j) /\ PermanentFailure(journal'[j][cursor[j]].answer)) =>
                LET entry == journal'[j][cursor[j]]
                    changed ==
                       \/ entry.result.status # entry.tracking.currentStatus
                       \/ hasNewEvents(entry.tracking.events, entry.result.events)
                IN  /\ entry.lookup = "resolved"
                    /\ entry.result.status = "Erro na consulta"
                    /\ Len(entry.result.events) = 1
                    /\ successCount'[j] = successCount[j] + 1
                    /\ consecutiveFailures' = 0
                    /\ errorCount' = errorCount
                    /\ skippedCount' = skippedCount
                    /\ changed => (entry.executeCalls = 1 /\ jobPc'[j] = "ucFind")
                    /\ ~changed => (entry.executeCalls = 0
                                     /\ entry.outcome = "unchanged")
          /\ (errorCount'[j] > errorCount[j]) =>
                /\ jobPc[j] \in {"ucFind", "ucUpdate"}
                /\ journal'[j][cursor[j]].lookup = "resolved"
                /\ journal'[j][cursor[j]].executeCalls = 1
                /\ journal'[j][cursor[j]].outcome = "failed"
                /\ errorCount'[j] = errorCount[j] + 1
                /\ consecutiveFailures' = consecutiveFailures + 1
          /\ consecutiveFailures' > consecutiveFailures =>
                \E p \in JobTypes : errorCount'[p] > errorCount[p] ]_vars

(* A 404 stored as an error in the first pass, and the same answer in the  *)
(* second pass counted as a success that needs an update (a new event).    *)
C33_Witness ==
    \E k \in 1..Len(journal["NORMAL"]), l \in 1..Len(journal["PICO-EXTRA"]) :
       /\ journal["NORMAL"][k].answer = NotFound404
       /\ journal["NORMAL"][k].lookup = "resolved"
       /\ journal["NORMAL"][k].outcome = "updated"
       /\ journal["PICO-EXTRA"][l].answer = NotFound404
       /\ journal["PICO-EXTRA"][l].tracking.currentStatus = "Erro na consulta"
       /\ journal["PICO-EXTRA"][l].lookup = "resolved"
       /\ journal["PICO-EXTRA"][l].executeCalls = 1
       /\ successCount["PICO-EXTRA"] >= 1
       /\ errorCount["NORMAL"] = 0 /\ errorCount["PICO-EXTRA"] = 0
       /\ consecutiveFailures = 0

(* The failure that does count: the update of the error status fails.      *)
C33_WitnessUseCaseFails ==
    \E k \in 1..Len(journal["NORMAL"]) :
       /\ journal["NORMAL"][k].answer = NotFound404
       /\ journal["NORMAL"][k].lookup = "resolved"
       /\ journal["NORMAL"][k].outcome = "failed"
       /\ errorCount["NORMAL"] = 1
       /\ successCount["NORMAL"] >= 1

(***************************************************************************)
(* C34: when a pass ends with its report, succeeded + permanently-failed + *)
(* temporarily-skipped = attempted (each fetched record in exactly one of  *)
(* the three), and updated <= succeeded.                                   *)
(***************************************************************************)
C34_CountsPartitionRecords ==
    \A j \in JobTypes :
       jobPc[j] = "done" =>
          /\ successCount[j] + errorCount[j] + skippedCount[j]
                = Len(trackings[j])
          /\ updatedCount[j] <= successCount[j]

(* A record whose lookup resolved and whose update failed is counted as    *)
(* succeeded and as permanently failed: two records, three counted.        *)
C34_CountedTwice ==
    /\ jobPc["NORMAL"] = "done"
    /\ Len(trackings["NORMAL"]) = 2
    /\ journal["NORMAL"][1].outcome = "failed"
    /\ journal["NORMAL"][2].outcome = "updated"
    /\ successCount["NORMAL"] = 2
    /\ errorCount["NORMAL"] = 1
    /\ skippedCount["NORMAL"] = 0
    /\ updatedCount["NORMAL"] = 1

(* What the counts do satisfy at the report.                               *)
C34_SucceededPlusSkipped ==
    \A j \in JobTypes :
       jobPc[j] = "done" =>
          /\ successCount[j] + skippedCount[j] = Len(trackings[j])
          /\ errorCount[j] + updatedCount[j] <= successCount[j]


(***************************************************************************)
(* C35: with two passes overlapping in any way, the status and the event   *)
(* list of a stored record are at all times either those it started with   *)
(* or the status and events of one lookup result for which updateStatus    *)
(* was called (never the status of one result with the events of another); *)
(* a row changes only in the step in which an updateStatus call for it     *)
(* takes effect, and then to the status and events that call was given, so *)
(* when both passes have finished each row holds the arguments of the last *)
(* updateStatus call that took effect for it.                              *)
(***************************************************************************)
PairsWritten(code) ==
    {<<journal[j][n].result.status, journal[j][n].result.events>> :
        <<j, n>> \in {jn \in JobTypes \X (1..MaxRecords) :
                        /\ jn[2] <= Len(journal[jn[1]])
                        /\ journal[jn[1]][jn[2]].tracking.trackingCode = code
                        /\ journal[jn[1]][jn[2]].updateCalls = 1}}

Started(j) == jobPc[j] \notin {"idle", "done", "critical"}

C37_StartedPassFinishes == Started("NORMAL") ~> Returned("NORMAL")

(* The pass reported after visiting every record, the last one after a     *)
(* pause.                                                                  *)
C37_Witness ==
    /\ jobPc["NORMAL"] = "done"
    /\ Len(trackings["NORMAL"]) = MaxSharedRecords
    /\ Len(journal["NORMAL"]) = Len(trackings["NORMAL"])
    /\ \E n \in 1..Len(journal["NORMAL"]) : journal["NORMAL"][n].waitTime > 0

(* The pass ended in its outer catch: the batch fetch rejected.            *)
C37_WitnessCritical == jobPc["NORMAL"] = "critical"

(* The loop is bounded by the batch: the cursor never passes the record    *)
(* after the last, and the journal holds one entry per record visited.     *)
C37_LoopBounded ==
    /\ cursor["NORMAL"] <= Len(trackings["NORMAL"]) + 1
    /\ Len(journal["NORMAL"]) <= Len(trackings["NORMAL"])

=============================================================================
